---------------------------- MODULE Spec2Model ----------------------------
(***************************************************************************)
(* A model of the Hiccup core: the open-addressed HashTable, the Memory    *)
(* facade with its allocation Tracker, the dynamic Array and the SSO       *)
(* String.  Every operator below is a transcription of the function of the *)
(* same name in Hiccup/Source/Core.                                        *)
(***************************************************************************)
EXTENDS Integers, Naturals, Sequences, FiniteSets, TLC

VARIABLES
    ht,        \* the HashTable under test
    shadow,    \* what the caller has stored in ht: key -> value, or Absent
    mem,       \* the platform heap and the Memory::Tracker
    arr,       \* the Array under test
    str,       \* the Strings under test
    lastOp,    \* the Memory, Array or String call the last step made, with its argument
    halted,    \* "no", or how the process ended: "assert" (OnAssertFailed has reported a failed HC_ASSERT), "crash" (trap, fault) or "hang"
    main,      \* the call of guarded_main: where it is, its shutdown graph and the subsystem calls it has made
    refs       \* the RefPtr handles under test and the reference-counted objects they hold

vars == <<ht, shadow, mem, arr, str, lastOp, halted, main, refs>>

(***************************************************************************)
(* Bounds of the model.                                                    *)
(***************************************************************************)
\* The reference-counted objects have the addresses 1..MaxObjects.
MaxObjects == 2
\* A RefPtr is not copied from once its object's count has reached MaxReferenceCount.
MaxReferenceCount == 3
\* Memory::allocate_raw and the UntrackedAllocator are not called while
\* MaxRawBlocks of their blocks are in use.
MaxRawBlocks == 1
\* Application::run, and a run that mixes tracked and untracked calls, make at most
\* MaxRunAllocations calls of Memory::allocate and allocate_tagged.
MaxRunAllocations == 3
\* Keys are the integers 0..MaxKey (hash of an integer is the integer itself).
MaxKey == 3
\* insert and operator[] are not called once a table holds MaxTableSize entries.
MaxTableSize == 3
\* Values a caller stores are 1..MaxValue; 0 is the default-constructed value.
MaxValue == 2

Keys == 0 .. MaxKey
Values == 1 .. MaxValue
\* new (&m_key_values[index].value) ValueType(): a value-initialised integer.
DefaultValue == 0
\* The shadow entry of a key the caller has not stored.
Absent == 0 - 1

(***************************************************************************)
(* HashTable (Containers/HashTable.h)                                      *)
(***************************************************************************)
\* enum class BucketState
Empty == "Empty"
Deleted == "Deleted"
Occupied == "Occupied"

\* static_cast<size_t>(-1): the all-ones size_t, written here as -1.
EndOfTable == 0 - 1
\* Result of a while(true) probe loop that never returns.
Hang == 0 - 2
\* A value whose last byte was overwritten with 0xFF: not a value any caller stored.
Clobbered == 0 - 3
\* Storage of a bucket that holds no constructed KeyValue.
Raw == [key |-> 0 - 1, value |-> 0 - 1]

\* DefaultHasher::compute -> compute_hash(const uintN_t&)
Hasher_compute(key) == key

\* DefaultComparator::Compare
Comparator_compare(a, b) == (a = b)

\* HashTable::HashTable()
HashTable_new == [capacity |-> 0, size |-> 0, states |-> <<>>, key_values |-> <<>>]

\* m_states[index], m_key_values[index].key and m_key_values[index].value.
\* Buckets are 0-based in the code; bucket i is element i + 1 of the sequences.
StateAt(t, index) == t.states[index + 1]
KeyAt(t, index) == t.key_values[index + 1].key
ValueAt(t, index) == t.key_values[index + 1].value

\* new (&m_key_values[index]) ...; m_states[index] = Occupied; m_size++
PlaceAt(t, index, key, value) == [t EXCEPT !.states[index + 1] = Occupied, !.key_values[index + 1] = [key |-> key, value |-> value], !.size = t.size + 1]

\* A find that stops at a tombstone as if it were Empty.
find_stops_at_tombstone(t, key) ==
    IF t.capacity = 0 THEN EndOfTable
    ELSE LET RECURSIVE loop(_, _)
             loop(index, i) ==
                 IF i >= t.capacity THEN EndOfTable
                 ELSE IF StateAt(t, index) = Occupied /\ Comparator_compare(key, KeyAt(t, index)) THEN index
                 ELSE IF StateAt(t, index) # Occupied THEN EndOfTable
                 ELSE loop((index + 1) % t.capacity, i + 1)
         IN loop(Hasher_compute(key) % t.capacity, 0)

\* A find whose loop has no bound on i: on a table with no Empty bucket the probe
\* for an absent key goes round the table for ever.
find_run_unbounded(t, key) ==
    IF t.capacity = 0 THEN [index |-> EndOfTable, probes |-> 0]
    ELSE LET RECURSIVE loop(_, _)
             loop(index, i) ==
                 IF i >= t.capacity THEN [index |-> Hang, probes |-> i + 1]
                 ELSE IF StateAt(t, index) = Occupied /\ Comparator_compare(key, KeyAt(t, index)) THEN [index |-> index, probes |-> i + 1]
                 ELSE IF StateAt(t, index) = Empty THEN [index |-> EndOfTable, probes |-> i + 1]
                 ELSE loop((index + 1) % t.capacity, i + 1)
         IN loop(Hasher_compute(key) % t.capacity, 0)

\* The run of HashTable::find: the index it returns, and probes, the number of
\* buckets its loop has read when it returns.
find_run(t, key) ==
    IF t.capacity = 0 THEN [index |-> EndOfTable, probes |-> 0]
    ELSE LET RECURSIVE loop(_, _)
             loop(index, i) ==
                 IF i >= t.capacity THEN [index |-> EndOfTable, probes |-> i]
                 ELSE IF StateAt(t, index) = Occupied /\ Comparator_compare(key, KeyAt(t, index)) THEN [index |-> index, probes |-> i + 1]
                 ELSE IF StateAt(t, index) = Empty THEN [index |-> EndOfTable, probes |-> i + 1]
                 ELSE loop((index + 1) % t.capacity, i + 1)
         IN loop(Hasher_compute(key) % t.capacity, 0)

\* HashTable::find
find(t, key) == find_run(t, key).index

\* HashTable::find_existing_index: while (true) with no exit but a match.  A probe
\* that has gone once round the table without a match never finds one: Hang.
\* (capacity 0 is a modulo by zero; the callers below test for it.)
find_existing_index(t, key) ==
    LET RECURSIVE loop(_, _)
        loop(index, n) ==
            IF n >= t.capacity THEN Hang
            ELSE IF StateAt(t, index) = Occupied /\ Comparator_compare(key, KeyAt(t, index)) THEN index
            ELSE loop((index + 1) % t.capacity, n + 1)
    IN loop(Hasher_compute(key) % t.capacity, 0)

\* HashTable::find_first_unoccupied_index: while (true) until a bucket is not Occupied.
\* A probe that has gone once round the table never finds one: Hang.
find_first_unoccupied_index(t, firstIndex) ==
    LET RECURSIVE loop(_, _)
        loop(index, n) ==
            IF n >= t.capacity THEN Hang
            ELSE IF StateAt(t, index) # Occupied THEN index
            ELSE loop((index + 1) % t.capacity, n + 1)
    IN loop(firstIndex, 0)

\* A search that returns the first bucket that is not Occupied, without looking
\* for the key behind a Deleted one.
find_index_of_first_gap(t, key) ==
    LET RECURSIVE loop(_, _)
        loop(index, i) ==
            IF i >= t.capacity THEN EndOfTable
            ELSE IF StateAt(t, index) # Occupied THEN index
            ELSE IF Comparator_compare(key, KeyAt(t, index)) THEN index
            ELSE loop((index + 1) % t.capacity, i + 1)
    IN loop(Hasher_compute(key) % t.capacity, 0)

\* HashTable::find_index_of_first_unoccupied
find_index_of_first_unoccupied(t, key) ==
    LET RECURSIVE loop(_, _, _)
        loop(index, firstIndex, i) ==
            IF i >= t.capacity THEN firstIndex
            ELSE IF StateAt(t, index) = Occupied
                 THEN IF Comparator_compare(key, KeyAt(t, index)) THEN index
                      ELSE loop((index + 1) % t.capacity, firstIndex, i + 1)
            ELSE IF StateAt(t, index) = Deleted
                 THEN loop((index + 1) % t.capacity, IF firstIndex = EndOfTable THEN index ELSE firstIndex, i + 1)
            ELSE IF firstIndex = EndOfTable THEN index ELSE firstIndex
    IN loop(Hasher_compute(key) % t.capacity, EndOfTable, 0)

\* An insert slot search that takes the first Empty bucket and ignores the probe
\* start: it begins at bucket 0 whatever the key's hash.
internal_insert_from_zero(t, key, value) ==
    LET index == find_first_unoccupied_index(t, 0)
    IN IF index = Hang THEN t ELSE PlaceAt(t, index, key, value)

\* HashTable::internal_insert (the four overloads differ only in copy or move).
\* The callers guarantee a bucket that is not Occupied; with none the probe hangs.
internal_insert(t, key, value) ==
    LET index == find_first_unoccupied_index(t, Hasher_compute(key) % t.capacity)
    IN IF index = Hang THEN t ELSE PlaceAt(t, index, key, value)

\* HashTable::is_over_load_factor: get_load_factor() >= MaxLoadFactor, in exact
\* arithmetic size / capacity >= 0.75  <=>  4 * size >= 3 * capacity.
is_over_load_factor(t) == (t.capacity = 0) \/ (4 * t.size >= 3 * t.capacity)

\* HashTable::calculate_growth()
calculate_growth(t) == t.capacity * 2 + 2

\* HashTable::required_capacity_for: (size_t)(requiredSize / 0.75) + 1
required_capacity_for(requiredSize) == ((4 * requiredSize) \div 3) + 1

\* The loop of re_allocate / the copy constructor: internal_insert of every
\* Occupied bucket of old, in bucket order, from bucket i on.
RECURSIVE insert_all_from(_, _, _)
insert_all_from(t, old, i) ==
    IF i >= old.capacity THEN t
    ELSE IF StateAt(old, i) = Occupied
         THEN insert_all_from(internal_insert(t, KeyAt(old, i), ValueAt(old, i)), old, i + 1)
    ELSE insert_all_from(t, old, i + 1)

\* HashTable::re_allocate_no_copy (the allocation succeeded): a new block whose
\* state bytes are memset to Empty.
re_allocate_no_copy(t, newCapacity) ==
    [capacity |-> newCapacity, size |-> 0, states |-> [i \in 1 .. newCapacity |-> Empty], key_values |-> [i \in 1 .. newCapacity |-> Raw]]

\* HashTable::re_allocate (the allocation succeeded): the same new block, and
\* then the re-insertion of the old buckets.
re_allocate(t, newCapacity) == insert_all_from(re_allocate_no_copy(t, newCapacity), t, 0)

\* HashTable::insert with HC_ENABLE_ASSERTS: the HC_ASSERT that the bucket found is
\* not Occupied fails (the process traps).
insert_assert_fails(t, key) ==
    LET r == IF is_over_load_factor(t) THEN re_allocate(t, calculate_growth(t)) ELSE t
        index == find_index_of_first_unoccupied(r, key)
    IN index # EndOfTable /\ StateAt(r, index) = Occupied

\* HashTable::insert (the four overloads differ only in copy or move).  asserts is
\* HC_ENABLE_ASSERTS: with it the slot comes from find_index_of_first_unoccupied,
\* without it from internal_insert.
insert(t, key, value, asserts) ==
    LET r == IF is_over_load_factor(t) THEN re_allocate(t, calculate_growth(t)) ELSE t
    IN IF asserts
       THEN PlaceAt(r, find_index_of_first_unoccupied(r, key), key, value)
       ELSE internal_insert(r, key, value)

\* A removal that marks the bucket Empty, leaving no tombstone.
remove_index_to_empty(t, index) == [t EXCEPT !.states[index + 1] = Empty, !.key_values[index + 1] = Raw, !.size = t.size - 1]

\* HashTable::remove_index
remove_index(t, index) == [t EXCEPT !.states[index + 1] = Deleted, !.key_values[index + 1] = Raw, !.size = t.size - 1]

\* HashTable::remove (which calls find_existing_index by its earlier name,
\* FindExistingIndex)
remove(t, key) == remove_index(t, find_existing_index(t, key))

\* A clear that resets the size and leaves the state bytes as they are.
clear_size_only(t) == [t EXCEPT !.size = 0]

\* HashTable::clear
clear(t) == [t EXCEPT !.size = 0, !.states = [i \in 1 .. t.capacity |-> Empty], !.key_values = [i \in 1 .. t.capacity |-> Raw]]

\* HashTable::HashTable(const HashTable&)
copy_construct(other) == insert_all_from(re_allocate_no_copy(HashTable_new, required_capacity_for(other.size)), other, 0)

\* HashTable::operator=(const HashTable&), for this != &other
copy_assign(t, other) ==
    LET cleared == clear(t)
        requiredCapacity == required_capacity_for(other.size)
        target == IF requiredCapacity > cleared.capacity THEN re_allocate_no_copy(cleared, requiredCapacity) ELSE cleared
    IN insert_all_from(target, other, 0)

\* HashTable::operator=(HashTable&&): HeapAllocator::operator== is always true, so
\* the buffers are exchanged.  The pair <<this, other>> after the call.
move_assign(t, other) == <<other, clear(t)>>

\* HashTable::HashTable(HashTable&&): the pair <<this, other>> after the call.
move_construct(other) == <<other, HashTable_new>>

(***************************************************************************)
(* Memory and Memory::Tracker (Memory/Memory.cpp; the earlier revision of  *)
(* the facade, without an allocations table, is Core/Memory.cpp).          *)
(***************************************************************************)
\* Platform blocks have the addresses 1..MaxAddress.
MaxAddress == 3
\* Memory::allocate and allocate_tagged are called with 0..MaxBytes bytes.
MaxBytes == 2
\* Memory::allocate and allocate_tagged are called at most MaxAllocations times.
MaxAllocations == 4

nullptr == 0
Addresses == 1 .. MaxAddress

\* new (s_tracker_data) MemoryTrackerData()
MemoryTrackerData_new == [allocated |-> 0, allocations_count |-> 0, deallocated |-> 0, deallocations_count |-> 0, allocations_table |-> HashTable_new]

\* The process memory: the revision of the facade and whether HC_ENABLE_ASSERTS is
\* set (fixed by the build), whether s_tracker_data is set, the size of the block
\* the platform has handed out at each address (0: none), the addresses
\* Memory::allocate / allocate_tagged returned and Memory::free has not yet taken,
\* and *s_tracker_data.
Memory_new(revision, asserts, active) == [revision |-> revision, asserts |-> asserts, active |-> active, heap |-> [a \in Addresses |-> 0], outstanding |-> {}, tracker |-> MemoryTrackerData_new]

\* Platform::allocate_memory is std::malloc: any address not handed out, or nullptr.
Platform_allocate_memory(m) == {nullptr} \cup {a \in Addresses : m.heap[a] = 0}

\* A registration that also counts the block the allocations table takes for
\* itself when it grows.
register_allocation_counting_table(m, memory_block, bytes_count) ==
    [m.tracker EXCEPT !.allocated = @ + bytes_count,
                      !.allocations_count = @ + (IF is_over_load_factor(m.tracker.allocations_table) THEN 2 ELSE 1),
                      !.allocations_table = insert(@, memory_block, bytes_count, m.asserts)]

\* Memory::Tracker::register_allocation; RegisterAllocation in the earlier revision.
register_allocation(m, memory_block, bytes_count) ==
    IF m.revision = "legacy"
    THEN [m.tracker EXCEPT !.allocated = @ + bytes_count, !.allocations_count = @ + 1]
    ELSE [m.tracker EXCEPT !.allocated = @ + bytes_count, !.allocations_count = @ + 1, !.allocations_table = insert(@, memory_block, bytes_count, m.asserts)]

\* Memory::Tracker::register_tagged_allocation: the AllocationInfo also carries the
\* file, function and line, which nothing reads back but log_memory_usage.
register_tagged_allocation(m, memory_block, bytes_count) == register_allocation(m, memory_block, bytes_count)

\* Memory::Tracker::register_deallocation; RegisterDeallocation in the earlier
\* revision ("Deallocated += 0").
register_deallocation(m, memory_block) ==
    IF m.revision = "legacy"
    THEN [m.tracker EXCEPT !.deallocated = @ + 0, !.deallocations_count = @ + 1]
    ELSE LET table == m.tracker.allocations_table
             allocationIndex == find_existing_index(table, memory_block)
         IN [m.tracker EXCEPT !.deallocated = @ + ValueAt(table, allocationIndex), !.deallocations_count = @ + 1, !.allocations_table = remove_index(table, allocationIndex)]

\* Memory::allocate, with memory_block what Platform::allocate_memory returned.
Memory_allocate(m, bytes_count, memory_block) ==
    IF bytes_count = 0 THEN m
    ELSE [m EXCEPT !.heap = IF memory_block = nullptr THEN @ ELSE [@ EXCEPT ![memory_block] = bytes_count],
                   !.outstanding = IF memory_block = nullptr THEN @ ELSE @ \cup {memory_block},
                   !.tracker = IF m.active THEN register_allocation(m, memory_block, bytes_count) ELSE @]

\* Memory::allocate_tagged, with memory_block what Platform::allocate_memory returned.
Memory_allocate_tagged(m, bytes_count, memory_block) ==
    IF bytes_count = 0 THEN m
    ELSE [m EXCEPT !.heap = IF memory_block = nullptr THEN @ ELSE [@ EXCEPT ![memory_block] = bytes_count],
                   !.outstanding = IF memory_block = nullptr THEN @ ELSE @ \cup {memory_block},
                   !.tracker = IF m.active THEN register_tagged_allocation(m, memory_block, bytes_count) ELSE @]

\* Memory::free
Memory_free(m, memory_block) ==
    IF memory_block = nullptr THEN m
    ELSE [m EXCEPT !.tracker = IF m.active THEN register_deallocation(m, memory_block) ELSE @,
                   !.heap[memory_block] = 0,
                   !.outstanding = @ \ {memory_block}]

(***************************************************************************)
(* A call in progress: the object it works on, the process memory, and     *)
(* whether the process has stopped.                                        *)
(***************************************************************************)
Process(object, m) == [self |-> object, mem |-> m, halted |-> "no"]

\* A write through a null pointer, a failed HC_ASSERT: the process stops.
Crash(q) == [q EXCEPT !.halted = "crash"]

\* What Memory::allocate / allocate_tagged returns to its caller, with new_data what
\* Platform::allocate_memory returns when it is asked.
returned_block(bytes_count, new_data) == IF bytes_count = 0 THEN nullptr ELSE new_data

(***************************************************************************)
(* Array (Containers/Array.h), for a trivially destructible element type   *)
(* of size 1 (re_allocate asks the allocator for new_capacity bytes).      *)
(***************************************************************************)
\* The operations are not called for a size or a capacity above MaxArraySize.
MaxArraySize == 3

\* The element a caller adds is 1; T() and zeroed storage are 0; storage never
\* written, or read outside the block, is RawElement.
ArrayElement == 1
RawElement == 0 - 1

\* Array::Array()
Array_new == [data |-> nullptr, capacity |-> 0, size |-> 0, elems |-> <<>>]

\* m_data[index]; outside the block the read gives whatever lies there.
ElemAt(a, index) == IF index < Len(a.elems) THEN a.elems[index + 1] ELSE RawElement

\* Array::should_grow
should_grow(a, required_additional_size) == a.size + required_additional_size > a.capacity

\* A growth policy that doubles the capacity.
Array_calculate_growth_doubling(a) == (2 * a.capacity) + 1

\* Array::calculate_growth()
Array_calculate_growth(a) == a.capacity + (a.capacity \div 2) + 1

\* A growth for a count that is the growth for one element.
Array_calculate_growth_natural(a, required_additional_size) == Array_calculate_growth(a)

\* Array::calculate_growth(required_additional_size)
Array_calculate_growth_for(a, required_additional_size) ==
    LET natural_growth == Array_calculate_growth(a)
        requiredCapacity == a.size + required_additional_size
    IN IF natural_growth > requiredCapacity THEN natural_growth ELSE requiredCapacity

\* An Array::re_allocate that keeps the old m_capacity with the new block.
Array_re_allocate_keeps_capacity(q, new_capacity, new_data) ==
    LET a == q.self
        new_block == returned_block(new_capacity, new_data)
        kept == IF a.size > new_capacity THEN new_capacity ELSE a.size
    IN IF new_block = nullptr /\ kept > 0 THEN Crash(q)
       ELSE [q EXCEPT !.self = [data |-> new_block, capacity |-> a.capacity, size |-> kept,
                                elems |-> [i \in 1 .. (IF new_block = nullptr THEN 0 ELSE new_capacity) |-> IF i <= kept THEN ElemAt(a, i - 1) ELSE RawElement]],
                      !.mem = Memory_free(Memory_allocate_tagged(q.mem, new_capacity, new_data), a.data)]

\* Array::re_allocate.  Moving an element into a null block stops the process.
Array_re_allocate(q, new_capacity, new_data) ==
    LET a == q.self
        new_block == returned_block(new_capacity, new_data)
        kept == IF a.size > new_capacity THEN new_capacity ELSE a.size
    IN IF new_block = nullptr /\ kept > 0 THEN Crash(q)
       ELSE [q EXCEPT !.self = [data |-> new_block, capacity |-> new_capacity, size |-> kept,
                                elems |-> [i \in 1 .. (IF new_block = nullptr THEN 0 ELSE new_capacity) |-> IF i <= kept THEN ElemAt(a, i - 1) ELSE RawElement]],
                      !.mem = Memory_free(Memory_allocate_tagged(q.mem, new_capacity, new_data), a.data)]

\* Array::re_allocate_no_copy
Array_re_allocate_no_copy(q, new_capacity, new_data) ==
    LET new_block == returned_block(new_capacity, new_data)
    IN [q EXCEPT !.self = [data |-> new_block, capacity |-> new_capacity, size |-> 0,
                           elems |-> [i \in 1 .. (IF new_block = nullptr THEN 0 ELSE new_capacity) |-> RawElement]],
                 !.mem = Memory_free(Memory_allocate_tagged(q.mem, new_capacity, new_data), q.self.data)]

\* Array::add, emplace_back, add_defaulted, add_zeroed and add_uninitialized, with
\* or without a count: re_allocate(new_capacity) if should_grow(count), then value
\* written into the count elements from m_size on (nothing written for
\* add_uninitialized: value is RawElement) and count added to m_size.  result is
\* old_size, the m_size read after the re_allocate: the index that the counted
\* overloads, add_zeroed() and add_uninitialized() return (the others return a
\* reference to the element at that index).
Array_add(q, count, new_capacity, value, new_data) ==
    LET g == IF should_grow(q.self, count) THEN Array_re_allocate(q, new_capacity, new_data) ELSE q
        a == g.self
    IN IF g.halted # "no" THEN g
       ELSE IF value # RawElement /\ count > 0 /\ a.data = nullptr THEN Crash(g)
       ELSE [self |-> [a EXCEPT !.size = a.size + count,
                                !.elems = [i \in 1 .. Len(a.elems) |-> IF value # RawElement /\ a.size < i /\ i <= a.size + count THEN value ELSE a.elems[i]]],
             mem |-> g.mem, halted |-> g.halted, result |-> a.size]

\* Array::set_size_uninitialized (value RawElement), set_size_defaulted and
\* set_size_zeroed (value 0).
Array_set_size(q, new_size, value, new_data) ==
    LET old_size == q.self.size
        g == IF new_size > q.self.capacity
             THEN Array_re_allocate(q, Array_calculate_growth_for(q.self, new_size - old_size), new_data)
             ELSE q
        a == g.self
    IN IF g.halted # "no" THEN g
       ELSE IF value # RawElement /\ new_size > old_size /\ a.data = nullptr THEN Crash(g)
       ELSE [g EXCEPT !.self.size = new_size,
                      !.self.elems = [i \in 1 .. Len(a.elems) |-> IF value # RawElement /\ old_size < i /\ i <= new_size THEN value ELSE a.elems[i]]]

\* Array::set_size_internal
set_size_internal(q, new_size) == [q EXCEPT !.self.size = new_size]

\* Array::set_capacity
set_capacity(q, new_capacity, new_data) ==
    IF new_capacity = q.self.capacity THEN q ELSE Array_re_allocate(q, new_capacity, new_data)

\* Array::clear
Array_clear(q) == [q EXCEPT !.self.size = 0]

\* The copy loop of the copy constructor and of operator=(const Array&).
Array_copy_elements(g, other) ==
    IF other.size > 0 /\ g.self.data = nullptr THEN Crash(g)
    ELSE [g EXCEPT !.self.size = other.size,
                   !.self.elems = [i \in 1 .. Len(g.self.elems) |-> IF i <= other.size THEN ElemAt(other, i - 1) ELSE g.self.elems[i]]]

\* Array::Array(const Array&), in the process memory m.
Array_copy_construct(m, other, new_data) ==
    Array_copy_elements(Array_re_allocate_no_copy(Process(Array_new, m), other.size, new_data), other)

\* A copy assignment that always takes a new block of exactly other.size elements.
Array_copy_assign_fitted(q, other, new_data) ==
    Array_copy_elements(Array_re_allocate_no_copy(q, other.size, new_data), other)

\* Array::operator=(const Array&), for this != &other.
Array_copy_assign(q, other, new_data) ==
    Array_copy_elements(IF other.size > q.self.capacity THEN Array_re_allocate_no_copy(q, other.size, new_data) ELSE Array_clear(q), other)

\* Array::operator=(const Array&) with this == &other: clear(), in either branch,
\* sets the m_size the copy loop then reads to 0.
Array_copy_assign_self(q, new_data) ==
    IF q.self.size > q.self.capacity THEN Array_re_allocate_no_copy(q, q.self.size, new_data) ELSE Array_clear(q)

\* A move assignment that swaps the two arrays without clear().
Array_move_assign_without_clear(a, other) == <<other, a>>

\* Array::operator=(Array&&): the pair <<this, other>> after the call.
Array_move_assign(a, other) == <<other, [a EXCEPT !.size = 0]>>

\* Array::Array(Array&&): the pair <<this, other>> after the call.
Array_move_construct(other) == <<other, Array_new>>

\* Array::~Array(): clear() and release_memory().
Array_destroy(m, a) == Memory_free(m, a.data)

(***************************************************************************)
(* String (Containers/String.h).  m_heap_bytes and m_sso_bytes share one   *)
(* union: heap_bytes is the block the content was written to, nullptr when *)
(* it was written to the inline buffer, and bytes are the first            *)
(* bytes_count bytes of that buffer.                                       *)
(***************************************************************************)
\* sizeof(char*), on a 64-bit target.
SSOSize == 8

\* The operations are not called with a span of MaxStringBytes bytes or more.
MaxStringBytes == 10

\* With the tracker active, the Strings of a run allocate at most
\* MaxStringAllocations blocks.
MaxStringAllocations == 3

\* A byte nothing has written: it can have any value, the zero byte included.
RawByte == 0 - 1

\* String::String()
String_new == [bytes_count |-> 1, heap_bytes |-> nullptr, bytes |-> <<0>>]

\* The m_bytes_count(0) the other constructors start construct_from_span from.
String_unconstructed == [bytes_count |-> 0, heap_bytes |-> nullptr, bytes |-> <<>>]

\* HC::utf8_string_bytes_count (String.cpp)
utf8_string_bytes_count(utf8_string) ==
    LET RECURSIVE scan(_)
        scan(i) == IF utf8_string[i] = 0 THEN i - 1 ELSE scan(i + 1)
    IN scan(1)

\* Span<const char>(utf8_string, utf8_string_bytes_count(utf8_string))
Span_of(utf8_string) == SubSeq(utf8_string, 1, utf8_string_bytes_count(utf8_string))

\* String::is_using_sso
is_using_sso(s) == s.bytes_count <= SSOSize

\* String::bytes and c_str: the inline buffer if is_using_sso(), the heap block
\* if not; the buffer that was not written holds other bytes.
String_bytes(s) ==
    IF is_using_sso(s) <=> s.heap_bytes = nullptr THEN s.bytes ELSE [i \in 1 .. s.bytes_count |-> RawByte]

\* String::span: bytes() and bytes_count()
span(s) == SubSeq(String_bytes(s), 1, s.bytes_count)

\* A release_memory_check that leaves the heap block allocated.
release_memory_skipped(q) == q

\* String::release_memory_check and release_memory
release_memory_check(q) ==
    IF ~is_using_sso(q.self) THEN [q EXCEPT !.mem = Memory_free(@, q.self.heap_bytes)] ELSE q

\* String::allocate.  Its HC_ASSERT holds at both call sites: the count is above
\* SSOSize there, and differs from m_bytes_count (0 in construct_from_span).
String_allocate(q, new_bytes_count, new_data) ==
    LET released == release_memory_check(q)
        block == returned_block(new_bytes_count, new_data)
    IN [released EXCEPT !.mem = Memory_allocate_tagged(@, new_bytes_count, new_data),
                        !.self = [bytes_count |-> new_bytes_count, heap_bytes |-> block,
                                  bytes |-> [i \in 1 .. new_bytes_count |-> RawByte]]]

\* A comparison that lets a span of SSOSize bytes into the inline buffer.
fits_inline_without_terminator(chars) == Len(chars) <= SSOSize

\* if (chars_span.bytes_count() < SSOSize)
fits_inline(chars) == Len(chars) < SSOSize

\* A copy that leaves the byte after the characters as it was.
copy_unterminated(chars) == Append(chars, RawByte)

\* Memory::copy(buffer, chars_span.bytes(), chars_span.bytes_count()) and
\* buffer[m_bytes_count - 1] = 0: the first m_bytes_count bytes of the buffer.
copy_terminated(chars) == Append(chars, 0)

\* The else branches of construct_from_span and assign_from_span, after allocate:
\* the copy into a null m_heap_bytes stops the process.
copy_to_heap(q, chars) ==
    IF q.self.heap_bytes = nullptr THEN Crash(q) ELSE [q EXCEPT !.self.bytes = copy_terminated(chars)]

\* String::construct_from_span
construct_from_span(q, chars, new_data) ==
    IF fits_inline(chars)
    THEN [q EXCEPT !.self = [bytes_count |-> Len(chars) + 1, heap_bytes |-> nullptr, bytes |-> copy_terminated(chars)]]
    ELSE copy_to_heap(String_allocate(q, Len(chars) + 1, new_data), chars)

\* String::assign_from_span, for a span outside the string's own buffer.
assign_from_span(q, chars, new_data) ==
    IF fits_inline(chars)
    THEN [release_memory_check(q) EXCEPT !.self = [bytes_count |-> Len(chars) + 1, heap_bytes |-> nullptr, bytes |-> copy_terminated(chars)]]
    ELSE copy_to_heap(IF q.self.bytes_count # Len(chars) + 1 THEN String_allocate(q, Len(chars) + 1, new_data) ELSE q, chars)

\* String::operator=(const String&) with this == &other: other.span() points into
\* the string's own buffer.  Below SSOSize bytes the inline buffer is copied onto
\* itself.  At SSOSize bytes allocate() writes m_heap_bytes over the inline bytes
\* before they are copied.  Above, allocate() frees the block before it is copied:
\* the read gives the old bytes (aliased = "intact"), other bytes ("garbage"), or
\* stops the process ("crash").
String_copy_assign_self(q, new_data, aliased) ==
    LET s == q.self
        garbage == [i \in 1 .. s.bytes_count |-> RawByte]
    IN IF s.bytes_count < SSOSize THEN assign_from_span(q, span(s), new_data)
       ELSE IF s.bytes_count = SSOSize THEN assign_from_span(q, garbage, new_data)
       ELSE IF aliased = "crash" THEN Crash(q)
       ELSE assign_from_span(q, IF aliased = "intact" THEN span(s) ELSE garbage, new_data)

\* String::String(String&&) and the assignments of operator=(String&&) after its
\* release_memory_check: the pair <<this, other>> after the call.
String_move(other) == <<other, String_new>>

(***************************************************************************)
(* The HashTable state machine.  ht is one table object; the other operand *)
(* of a copy or a move is a table built by inserts on a fresh table, and   *)
(* after a move the run follows either of the two objects.                 *)
(***************************************************************************)
NoShadow == [k \in Keys |-> Absent]
Running == halted = "no"
\* guarded_main has not been called: no subsystem is initialised, and the shutdown
\* graph (system_shutdowns, system_shutdowns_count) is empty.  initialized and
\* shutdowns list, in the order of the calls, the subsystems whose initialize has
\* returned true and the subsystems whose shutdown has been called.
Main_not_entered ==
    [pc |-> "not entered", callback |-> "null", system_shutdowns |-> <<>>, i |-> 0 - 1,
     initialized |-> <<>>, shutdowns |-> <<>>, exit |-> "none"]
\* The RefPtr variables of a run.
RefPtrNames == {"a", "b", "c"}
\* RefPtr(): every handle is default-constructed, and no object has been created.
\* instance is m_instance of each handle; count is m_reference_count_internal of
\* each object; alive are the objects created and not deleted.
RefPtrs_new == [instance |-> [x \in RefPtrNames |-> nullptr], count |-> [o \in 1 .. MaxObjects |-> 0], alive |-> {}]
\* The memory of a process that has not initialised the tracker.
Memory_untracked == Memory_new("current", FALSE, FALSE)
\* The two String objects of a run.
StringNames == {"s", "t"}
Strings_new == [x \in StringNames |-> String_new]
NoOp == [op |-> "none", arg |-> 0, before |-> 0]

\* The other operand of a copy or a move: the tables t (with what was stored in
\* them, sh) that these sequences of inserts build on a new table: colliding keys
\* in both orders, and enough keys for a rehash.  Key k is stored with the value
\* 1 + (k % MaxValue).
SourceTables ==
    LET RECURSIVE BuiltBy(_)
        BuiltBy(seq) ==
            IF seq = <<>> THEN [t |-> HashTable_new, sh |-> NoShadow]
            ELSE LET prev == BuiltBy(SubSeq(seq, 1, Len(seq) - 1))
                     k == seq[Len(seq)]
                 IN [t |-> insert(prev.t, k, 1 + (k % MaxValue), FALSE), sh |-> [prev.sh EXCEPT ![k] = 1 + (k % MaxValue)]]
    IN {BuiltBy(seq) : seq \in {<<>>, <<1>>, <<0, 2>>, <<2, 0>>, <<3, 1, 0>>}}

InitHT ==
    /\ ht = HashTable_new
    /\ shadow = NoShadow
    /\ mem = Memory_untracked
    /\ arr = Array_new
    /\ str = Strings_new
    /\ lastOp = NoOp
    /\ halted = "no"
    /\ main = Main_not_entered
    /\ refs = RefPtrs_new

\* insert(key, value) of a key that is not in the table.  The rehash, if one is
\* due, gets its block, or it gets none: re_allocate then memsets the state bytes
\* of a null block and the process faults.
Insert(key, value) ==
    /\ Running
    /\ ht.size < MaxTableSize
    /\ shadow[key] = Absent
    /\ \/ /\ \E asserts \in BOOLEAN :
                /\ ~(asserts /\ insert_assert_fails(ht, key))
                /\ ht' = insert(ht, key, value, asserts)
          /\ shadow' = [shadow EXCEPT ![key] = value]
          /\ UNCHANGED halted
       \/ /\ is_over_load_factor(ht)
          /\ halted' = "crash"
          /\ UNCHANGED <<ht, shadow>>
    /\ UNCHANGED <<mem, arr, str, lastOp, main, refs>>

\* remove(key) of a key that is in the table.
Remove(key) ==
    /\ Running
    /\ shadow[key] # Absent
    /\ ht.capacity > 0
    /\ find_existing_index(ht, key) # Hang
    /\ ht' = remove(ht, key)
    /\ shadow' = [shadow EXCEPT ![key] = Absent]
    /\ UNCHANGED <<mem, arr, str, lastOp, main, refs>>
    /\ UNCHANGED halted

\* remove_index(index) of an Occupied bucket.
RemoveIndex(index) ==
    /\ Running
    /\ index < ht.capacity
    /\ StateAt(ht, index) = Occupied
    /\ ht' = remove_index(ht, index)
    /\ shadow' = [shadow EXCEPT ![KeyAt(ht, index)] = Absent]
    /\ UNCHANGED <<mem, arr, str, lastOp, main, refs>>
    /\ UNCHANGED halted

\* clear()
Clear ==
    /\ Running
    /\ ht' = clear(ht)
    /\ shadow' = NoShadow
    /\ UNCHANGED <<mem, arr, str, lastOp, main, refs>>
    /\ UNCHANGED halted

\* operator[](key).
\* On a default-constructed table, Hasher::compute(key) % m_capacity is a modulo
\* by zero (undefined; the division traps, or m_states is null and the read of
\* m_states[index] faults).
\* For an absent key on a table whose buckets are all Occupied,
\* find_index_of_first_unoccupied returns static_cast<size_t>(-1) and m_states[-1]
\* is the last byte of the last KeyValue (the state array follows the pairs in the
\* block).  Undefined behaviour, with these outcomes: that byte reads as Occupied
\* and nothing is written; or the pair is constructed in front of the block, the
\* byte is set to 0xFF (the last pair's value changes) and m_size is incremented;
\* or the process faults.
Index(key) ==
    /\ Running
    /\ shadow[key] # Absent \/ ht.size < MaxTableSize
    /\ IF ht.capacity = 0
       THEN halted' = "crash" /\ UNCHANGED <<ht, shadow>>
       ELSE LET index == find_index_of_first_unoccupied(ht, key)
            IN IF index = EndOfTable
               THEN /\ \/ UNCHANGED <<ht, halted>>
                       \/ /\ ht' = [ht EXCEPT !.size = @ + 1, !.key_values[ht.capacity].value = Clobbered]
                          /\ UNCHANGED halted
                       \/ halted' = "crash" /\ UNCHANGED ht
                    /\ UNCHANGED shadow
               ELSE /\ IF StateAt(ht, index) # Occupied
                       THEN /\ ht' = PlaceAt(ht, index, key, DefaultValue)
                            /\ shadow' = [shadow EXCEPT ![key] = DefaultValue]
                       ELSE UNCHANGED <<ht, shadow>>
                    /\ UNCHANGED halted
    /\ UNCHANGED <<mem, arr, str, lastOp, main, refs>>

\* HashTable copy(ht): the run goes on with the copy of ht.
CopyConstruct ==
    /\ Running
    /\ ht' = copy_construct(ht)
    /\ UNCHANGED <<mem, arr, str, lastOp, main, refs>>
    /\ UNCHANGED <<shadow, halted>>

\* HashTable moved(move(ht)): the run goes on with the new table or with the
\* moved-from ht.
MoveConstruct ==
    /\ Running
    /\ \/ ht' = move_construct(ht)[1] /\ UNCHANGED shadow
       \/ ht' = move_construct(ht)[2] /\ shadow' = NoShadow
    /\ UNCHANGED <<mem, arr, str, lastOp, main, refs>>
    /\ UNCHANGED halted

\* ht = other
CopyAssign(src) ==
    /\ Running
    /\ ht' = copy_assign(ht, src.t)
    /\ shadow' = src.sh
    /\ UNCHANGED <<mem, arr, str, lastOp, main, refs>>
    /\ UNCHANGED halted

\* ht = ht
CopyAssignSelf ==
    /\ Running
    /\ ht' = copy_assign(ht, clear(ht))
    /\ shadow' = NoShadow
    /\ UNCHANGED <<mem, arr, str, lastOp, main, refs>>
    /\ UNCHANGED halted

\* ht = move(other): the run goes on with ht or with the moved-from other, which
\* now holds the buffer ht had.
MoveAssign(src) ==
    /\ Running
    /\ \/ ht' = move_assign(ht, src.t)[1] /\ shadow' = src.sh
       \/ ht' = move_assign(ht, src.t)[2] /\ shadow' = NoShadow
    /\ UNCHANGED <<mem, arr, str, lastOp, main, refs>>
    /\ UNCHANGED halted

NextHT ==
    \/ \E key \in Keys, value \in Values : Insert(key, value)
    \/ \E key \in Keys : Remove(key)
    \/ \E index \in 0 .. (2 * MaxTableSize + 6) : RemoveIndex(index)
    \/ Clear
    \/ \E key \in Keys : Index(key)
    \/ CopyConstruct
    \/ MoveConstruct
    \/ \E src \in SourceTables : CopyAssign(src)
    \/ CopyAssignSelf
    \/ \E src \in SourceTables : MoveAssign(src)

SpecHT == InitHT /\ [][NextHT]_vars

\* Runs made of insert and remove only (with the rehashes the inserts trigger).
NextHTInsertRemove ==
    \/ \E key \in Keys, value \in Values : Insert(key, value)
    \/ \E key \in Keys : Remove(key)

SpecHTInsertRemove == InitHT /\ [][NextHTInsertRemove]_vars

(***************************************************************************)
(* HashTable properties.                                                   *)
(***************************************************************************)
\* C1: after any run of insert (of absent keys), remove (of present keys) and the
\* rehashes the inserts trigger, find(k) is the index of an Occupied bucket holding
\* k with the value inserted for k when k is in the map, and EndOfTable when it is
\* not -- also when the probe for k crosses tombstones.
C1_FindReturnsWhatWasInserted ==
    \A k \in Keys :
        LET index == find(ht, k)
        IN IF shadow[k] # Absent
           THEN /\ index \in 0 .. (ht.capacity - 1)
                /\ StateAt(ht, index) = Occupied
                /\ KeyAt(ht, index) = k
                /\ ValueAt(ht, index) = shadow[k]
           ELSE index = EndOfTable

\* A key in the map whose probe starts on a tombstone and finds it further on,
\* beside a removed key whose probe crosses a tombstone too.
C1_FoundAcrossTombstone ==
    /\ ht.capacity > 0
    /\ \E k \in Keys :
          /\ shadow[k] # Absent
          /\ StateAt(ht, Hasher_compute(k) % ht.capacity) = Deleted
          /\ find(ht, k) \notin {EndOfTable, Hasher_compute(k) % ht.capacity}
    /\ \E k \in Keys :
          /\ shadow[k] = Absent
          /\ StateAt(ht, Hasher_compute(k) % ht.capacity) = Deleted

\* C2: in every reachable state, for every key K in an Occupied bucket, the linear
\* probe from hash(K) mod capacity, advancing by one modulo capacity, reaches K's
\* bucket before it meets an Empty bucket.
C2_ProbeReachesKeyBeforeEmpty ==
    \A index \in 0 .. (ht.capacity - 1) :
        StateAt(ht, index) = Occupied =>
            LET home == Hasher_compute(KeyAt(ht, index)) % ht.capacity
                distance == (index - home) % ht.capacity
            IN \A step \in 0 .. (distance - 1) : StateAt(ht, (home + step) % ht.capacity) # Empty

\* A table, reached through a rehash, in which a key sits away from its home bucket
\* behind a tombstone and another behind an Occupied bucket.
C2_DisplacedKeys ==
    /\ ht.capacity > 2
    /\ \E index \in 0 .. (ht.capacity - 1) :
          /\ StateAt(ht, index) = Occupied
          /\ Hasher_compute(KeyAt(ht, index)) % ht.capacity # index
          /\ StateAt(ht, Hasher_compute(KeyAt(ht, index)) % ht.capacity) = Deleted
    /\ \E index \in 0 .. (ht.capacity - 1) :
          /\ StateAt(ht, index) = Occupied
          /\ Hasher_compute(KeyAt(ht, index)) % ht.capacity # index
          /\ StateAt(ht, Hasher_compute(KeyAt(ht, index)) % ht.capacity) = Occupied

\* C3: in every reachable state of a table with capacity > 0, also right after each
\* insert of a run of distinct-key inserts, size <= floor(0.75 * capacity).
C3_SizeWithinLoadFactor ==
    ht.capacity > 0 => ht.size <= (3 * ht.capacity) \div 4

\* C12: when insert is only called with keys that are not in the table
\* (operator[], remove, remove_index, clear and the rehash being unrestricted),
\* no two Occupied buckets hold equal keys.
C12_NoKeyInTwoBuckets ==
    \A i, j \in 0 .. (ht.capacity - 1) :
        (StateAt(ht, i) = Occupied /\ StateAt(ht, j) = Occupied /\ Comparator_compare(KeyAt(ht, i), KeyAt(ht, j))) => i = j

\* C12 at work: a key that operator[] stored (it has the default value) sits
\* away from its home bucket, which is Deleted, in a table with another key.
C12_StoredBehindTombstone ==
    /\ ht.size >= 2
    /\ \E i \in 0 .. (ht.capacity - 1) :
          /\ StateAt(ht, i) = Occupied
          /\ ValueAt(ht, i) = DefaultValue
          /\ Hasher_compute(KeyAt(ht, i)) % ht.capacity # i
          /\ StateAt(ht, Hasher_compute(KeyAt(ht, i)) % ht.capacity) = Deleted

\* C13: on every reachable table (one with capacity 0 and one whose buckets are
\* all Occupied included) and for every key k, operator[](k) returns; if k is in
\* the table it leaves the table as it is, and otherwise it stores k with a
\* default-constructed value in an Occupied bucket below capacity and adds one to
\* size.
C13_IndexFindsOrInserts ==
    [][\A k \in Keys : Index(k) =>
          /\ halted' = "no"
          /\ IF find(ht, k) # EndOfTable
             THEN ht' = ht
             ELSE /\ ht'.size = ht.size + 1
                  /\ \E index \in 0 .. (ht'.capacity - 1) :
                        /\ StateAt(ht', index) = Occupied
                        /\ KeyAt(ht', index) = k
                        /\ ValueAt(ht', index) = DefaultValue]_vars

\* C14: on every reachable table find(k) returns after reading at most capacity
\* buckets: on a table with capacity 0 it returns EndOfTable without reading any
\* (and without a modulo by zero), and on a table with no Empty bucket it returns
\* EndOfTable for an absent key after one full cycle.
C14_FindTerminates ==
    \A k \in Keys :
        LET r == find_run(ht, k)
        IN /\ r.probes <= ht.capacity
           /\ r.index = EndOfTable \/ r.index \in 0 .. (ht.capacity - 1)
           /\ ht.capacity = 0 => (r.index = EndOfTable /\ r.probes = 0)
           /\ (shadow[k] = Absent /\ \A i \in 0 .. (ht.capacity - 1) : StateAt(ht, i) # Empty) =>
                 (r.index = EndOfTable /\ r.probes = ht.capacity)

\* C14 at work: a table with Occupied and Deleted buckets and no Empty one, on
\* which find returns EndOfTable for a key that is not in it.
C14_FullCycleProbed ==
    /\ ht.capacity > 0
    /\ \A i \in 0 .. (ht.capacity - 1) : StateAt(ht, i) # Empty
    /\ \E i \in 0 .. (ht.capacity - 1) : StateAt(ht, i) = Deleted
    /\ \E i \in 0 .. (ht.capacity - 1) : StateAt(ht, i) = Occupied
    /\ \E k \in Keys : shadow[k] = Absent /\ find(ht, k) = EndOfTable

\* C20: on every reachable table M and for every key k that is not in M,
\* insert(k, v) followed by remove(k) leaves size as it was before the insert,
\* find(k) returns EndOfTable, and every other key of M is found with the value
\* it had.
C20_InsertThenRemove ==
    \A k \in Keys, v \in Values, asserts \in BOOLEAN :
        shadow[k] = Absent =>
            LET after == remove(insert(ht, k, v, asserts), k)
            IN /\ after.size = ht.size
               /\ find(after, k) = EndOfTable
               /\ \A j \in Keys \ {k} :
                     shadow[j] # Absent =>
                         /\ find(after, j) # EndOfTable
                         /\ ValueAt(after, find(after, j)) = ValueAt(ht, find(ht, j))

\* C21: clear() on any reachable table leaves size 0, every bucket Empty (none
\* Occupied, none Deleted) and the capacity as it was, and find(k) then returns
\* EndOfTable for every key k.
C21_ClearEmptiesEveryBucket ==
    [][Clear =>
          /\ ht'.size = 0
          /\ ht'.capacity = ht.capacity
          /\ \A i \in 0 .. (ht'.capacity - 1) : StateAt(ht', i) = Empty
          /\ \A k \in Keys : find(ht', k) = EndOfTable]_vars

\* C21 at work: a table that inserts have grown by two rehashes, with nothing in
\* it and no tombstone left.
C21_GrownTableCleared ==
    /\ ht.capacity >= 6
    /\ ht.size = 0
    /\ shadow = NoShadow
    /\ \A i \in 0 .. (ht.capacity - 1) : StateAt(ht, i) = Empty

C26_InsertRehashesAtLoadFactor ==
    [][(is_over_load_factor(ht) /\ halted' = "no" /\ ht' # ht /\ \E key \in Keys, value \in Values : Insert(key, value)) =>
          /\ ht'.capacity = 2 * ht.capacity + 2
          /\ ht'.size = ht.size + 1
          /\ \A i \in 0 .. (ht.capacity - 1) :
                StateAt(ht, i) = Occupied =>
                    /\ find(ht', KeyAt(ht, i)) # EndOfTable
                    /\ ValueAt(ht', find(ht', KeyAt(ht, i))) = ValueAt(ht, i)
          /\ \A j \in 0 .. (ht'.capacity - 1) : StateAt(ht', j) # Deleted
          /\ 4 * ht'.size < 3 * ht'.capacity]_vars

(***************************************************************************)
(* The Memory state machine: calls of Memory::allocate, allocate_tagged    *)
(* and free (of addresses they returned) with the tracker active.          *)
(***************************************************************************)
\* After Memory::initialize with should_initialize_tracker, in a build with or
\* without HC_ENABLE_ASSERTS.
InitMemory ==
    /\ mem \in {Memory_new("current", asserts, TRUE) : asserts \in BOOLEAN}
    /\ ht = HashTable_new
    /\ shadow = NoShadow
    /\ arr = Array_new
    /\ str = Strings_new
    /\ lastOp = NoOp
    /\ halted = "no"
    /\ main = Main_not_entered
    /\ refs = RefPtrs_new

\* The same, for the earlier revision of the facade.
InitMemoryLegacy ==
    /\ mem = Memory_new("legacy", TRUE, TRUE)
    /\ ht = HashTable_new
    /\ shadow = NoShadow
    /\ arr = Array_new
    /\ str = Strings_new
    /\ lastOp = NoOp
    /\ halted = "no"
    /\ main = Main_not_entered
    /\ refs = RefPtrs_new

\* A call of Memory::allocate or allocate_tagged.  The call returns (the tracker's
\* table, if it rehashes, gets its block); or its registration ends in the
\* HC_ASSERT of HashTable::insert, the address being a key of the table already;
\* or the registration rehashes the table and the UntrackedAllocator gets no
\* block, so that re_allocate writes through the null block.
MemoryAllocateCall(name, bytes_count, allocated) ==
    /\ mem.tracker.allocations_count < MaxAllocations
    /\ \E memory_block \in Platform_allocate_memory(mem) :
          LET registers == bytes_count > 0 /\ mem.active /\ mem.revision = "current"
              traps == registers /\ mem.asserts /\ insert_assert_fails(mem.tracker.allocations_table, memory_block)
          IN \/ ~traps /\ mem' = allocated[memory_block] /\ UNCHANGED halted
             \/ traps /\ halted' = "assert" /\ UNCHANGED mem
             \/ /\ registers /\ is_over_load_factor(mem.tracker.allocations_table)
                /\ halted' = "crash" /\ UNCHANGED mem
    /\ lastOp' = [op |-> name, arg |-> bytes_count, before |-> mem.tracker.deallocated]
    /\ UNCHANGED <<ht, shadow, arr, str, main, refs>>

\* Memory::allocate(bytes_count)
Allocate(bytes_count) ==
    /\ Running
    /\ MemoryAllocateCall("allocate", bytes_count, [memory_block \in Addresses \cup {nullptr} |-> Memory_allocate(mem, bytes_count, memory_block)])

\* Memory::allocate_tagged(bytes_count, ...)
AllocateTagged(bytes_count) ==
    /\ Running
    /\ MemoryAllocateCall("allocate_tagged", bytes_count, [memory_block \in Addresses \cup {nullptr} |-> Memory_allocate_tagged(mem, bytes_count, memory_block)])

\* Memory::free(memory_block) of an address allocate / allocate_tagged returned and
\* free has not taken since.  arg is the size the block was allocated with.
Free(memory_block) ==
    /\ Running
    /\ memory_block \in mem.outstanding
    /\ mem' = Memory_free(mem, memory_block)
    /\ lastOp' = [op |-> "free", arg |-> mem.heap[memory_block], before |-> mem.tracker.deallocated]
    /\ UNCHANGED <<ht, shadow, arr, str, halted, main, refs>>

\* Memory::free(memory_block) of an address that allocate / allocate_tagged has not
\* returned, or that free has taken since.  register_deallocation looks the address
\* up with find_existing_index: a modulo by zero while the table has no capacity,
\* a probe without end when it has.  The earlier revision counts the call and
\* hands the address to std::free, which takes it or stops the process.
FreeUnrecorded(memory_block) ==
    /\ Running
    /\ memory_block \notin mem.outstanding
    /\ IF mem.revision = "legacy"
       THEN /\ mem.tracker.deallocations_count < MaxAllocations
            /\ \/ mem' = [mem EXCEPT !.tracker = register_deallocation(mem, memory_block)] /\ UNCHANGED halted
               \/ halted' = "crash" /\ UNCHANGED mem
       ELSE LET table == mem.tracker.allocations_table
                found == table.capacity > 0 /\ find_existing_index(table, memory_block) # Hang
            IN /\ halted' = IF table.capacity = 0 THEN "crash" ELSE IF found THEN "no" ELSE "hang"
               /\ mem' = IF found THEN Memory_free(mem, memory_block) ELSE mem
    /\ lastOp' = [op |-> "free_unrecorded", arg |-> memory_block, before |-> mem.tracker.deallocated]
    /\ UNCHANGED <<ht, shadow, arr, str, main, refs>>

NextMemory ==
    \/ \E bytes_count \in 0 .. MaxBytes : Allocate(bytes_count)
    \/ \E bytes_count \in 0 .. MaxBytes : AllocateTagged(bytes_count)
    \/ \E memory_block \in Addresses : Free(memory_block)
    \/ \E memory_block \in Addresses : FreeUnrecorded(memory_block)

SpecMemory == InitMemory /\ [][NextMemory]_vars

\* The earlier revision, which has no table to rehash and no insert to assert in.
SpecMemoryLegacy == InitMemoryLegacy /\ [][NextMemory]_vars

\* Memory::allocate_raw(bytes_count): nullptr for 0 bytes, and else what
\* Platform::allocate_memory returns.  UntrackedAllocator::allocate_raw, allocate
\* and allocate_tagged are this call: each returns Memory::allocate_raw(bytes_count).
AllocateRaw(bytes_count) ==
    /\ Running
    /\ Cardinality({a \in Addresses : mem.heap[a] # 0 /\ a \notin mem.outstanding}) < MaxRawBlocks
    /\ \E memory_block \in Platform_allocate_memory(mem) :
          mem' = IF bytes_count = 0 \/ memory_block = nullptr THEN mem ELSE [mem EXCEPT !.heap[memory_block] = bytes_count]
    /\ lastOp' = [op |-> "allocate_raw", arg |-> 0, before |-> mem.tracker.deallocated]
    /\ UNCHANGED <<ht, shadow, arr, str, halted, main, refs>>

\* Memory::free_raw(memory_block), for nullptr or a block that allocate_raw
\* returned: Platform::free_memory.  UntrackedAllocator::free_raw and free are
\* this call.
FreeRaw(memory_block) ==
    /\ Running
    /\ IF memory_block = nullptr THEN TRUE ELSE mem.heap[memory_block] # 0 /\ memory_block \notin mem.outstanding
    /\ mem' = IF memory_block = nullptr THEN mem ELSE [mem EXCEPT !.heap[memory_block] = 0]
    /\ lastOp' = [op |-> "free_raw", arg |-> 0, before |-> mem.tracker.deallocated]
    /\ UNCHANGED <<ht, shadow, arr, str, halted, main, refs>>

\* The tracked calls next to the untracked ones.
NextMemoryRaw ==
    \/ mem.tracker.allocations_count < MaxRunAllocations /\ \E bytes_count \in 0 .. MaxBytes : Allocate(bytes_count)
    \/ \E memory_block \in Addresses : Free(memory_block)
    \/ \E bytes_count \in 0 .. 1 : AllocateRaw(bytes_count)
    \/ \E memory_block \in Addresses \cup {nullptr} : FreeRaw(memory_block)

SpecMemoryRaw == InitMemory /\ [][NextMemoryRaw]_vars

(***************************************************************************)
(* Memory properties.                                                      *)
(***************************************************************************)
\* The buckets of the allocations table that hold a record.
Records(m) == {index \in 0 .. (m.tracker.allocations_table.capacity - 1) : StateAt(m.tracker.allocations_table, index) = Occupied}

\* The sum of bytes_count over the records of a set of buckets.
RECURSIVE SumOfBytes(_, _)
SumOfBytes(m, buckets) ==
    IF buckets = {} THEN 0
    ELSE LET index == CHOOSE i \in buckets : TRUE
         IN ValueAt(m.tracker.allocations_table, index) + SumOfBytes(m, buckets \ {index})

\* C4: with the tracker active, after any run of Memory::allocate, allocate_tagged
\* and free (of live tracked addresses), total_allocated - total_freed is the sum of
\* bytes_count over the records in the allocations table, and each free adds exactly
\* the size of the freed block to total_freed.
C4_LedgerBalances ==
    mem.active =>
        /\ mem.tracker.allocated - mem.tracker.deallocated = SumOfBytes(mem, Records(mem))
        /\ lastOp.op = "free" => mem.tracker.deallocated = lastOp.before + lastOp.arg

\* C5: with the tracker active, total_alloc_ops >= total_free_ops, their difference
\* is the number of records in the allocations table, and the table holds exactly
\* one record per outstanding tracked allocation, keyed by its address.
C5_OneRecordPerOutstandingAllocation ==
    mem.active =>
        /\ mem.tracker.allocations_count >= mem.tracker.deallocations_count
        /\ mem.tracker.allocations_count - mem.tracker.deallocations_count = Cardinality(Records(mem))
        /\ \A memory_block \in mem.outstanding :
              Cardinality({index \in Records(mem) : KeyAt(mem.tracker.allocations_table, index) = memory_block}) = 1
        /\ \A index \in Records(mem) : KeyAt(mem.tracker.allocations_table, index) \in mem.outstanding

\* C15: with the tracker active, Memory::free of a non-null address that has no
\* live record ends in the report of a fatal defect (as a failed HC_ASSERT does),
\* with total_freed and total_free_ops as they were.
C15_UnrecordedFreeReported ==
    lastOp.op = "free_unrecorded" =>
        /\ halted = "assert"
        /\ mem.tracker.deallocated = lastOp.before

\* C16: a call of Memory::allocate or allocate_tagged for which the platform has
\* no block fails: it does not go on with the null block as if it were storage,
\* so that nothing is registered for it.
C16_FailedAllocationFails ==
    [][(lastOp'.op \in {"allocate", "allocate_tagged"} /\ lastOp'.arg > 0 /\ mem'.outstanding = mem.outstanding)
          => mem'.tracker = mem.tracker]_vars

\* C25: Memory::allocate_raw, Memory::free_raw and every UntrackedAllocator call
\* leave the totals and the records of the tracker as they are; and a call of
\* Memory::allocate or allocate_tagged that returns changes the ledger by exactly
\* one record, one allocation count and the byte size of that allocation, also
\* when the allocations table grows (through its UntrackedAllocator) inside the
\* registration.
C25_UntrackedCallsLeaveTheLedger ==
    [][/\ lastOp'.op \in {"allocate_raw", "free_raw"} =>
             (mem'.tracker = mem.tracker /\ mem'.outstanding = mem.outstanding)
       /\ (lastOp'.op \in {"allocate", "allocate_tagged"} /\ lastOp'.arg > 0 /\ halted' = "no") =>
             /\ mem'.tracker.allocations_count = mem.tracker.allocations_count + 1
             /\ mem'.tracker.allocated = mem.tracker.allocated + lastOp'.arg
             /\ Cardinality(Records(mem')) = Cardinality(Records(mem)) + 1
             /\ mem'.tracker.deallocations_count = mem.tracker.deallocations_count
             /\ mem'.tracker.deallocated = mem.tracker.deallocated]_vars

\* C25 at work: an allocation has just been registered in a table that had to
\* grow for it a second time, while a block of Memory::allocate_raw is in use.
C25_RegisteredWhileTableGrew ==
    /\ lastOp.op = "allocate"
    /\ lastOp.arg > 0
    /\ mem.tracker.allocations_count = 3
    /\ mem.tracker.deallocations_count = 0
    /\ mem.tracker.allocations_table.capacity = 6
    /\ mem.tracker.allocations_table.size = 3
    /\ \E memory_block \in Addresses : mem.heap[memory_block] # 0 /\ memory_block \notin mem.outstanding

(***************************************************************************)
(* The Array state machine.  arr is one Array object; the other operand of *)
(* a copy or move assignment is a temporary that holds one of SourceArrays *)
(* and is destroyed after the call, and after a move the run follows       *)
(* either of the two objects (the other one is destroyed).                 *)
(***************************************************************************)
\* The contents of the other operand.
SourceArrays == {<<>>, <<1>>, <<1, 0, 1>>}

\* An array that holds exactly the elements of seq, in a block at data.
Array_holding(seq, data) == [data |-> data, capacity |-> Len(seq), size |-> Len(seq), elems |-> seq]

InitArray ==
    /\ arr = Array_new
    /\ mem = Memory_untracked
    /\ ht = HashTable_new
    /\ shadow = NoShadow
    /\ str = Strings_new
    /\ lastOp = NoOp
    /\ halted = "no"
    /\ main = Main_not_entered
    /\ refs = RefPtrs_new

\* The call name(arg) has run to r: it returned, or it stopped the process.
\* lastOp.before is the index the call returned, for the calls that return one.
ArrayCall(name, arg, r) ==
    /\ IF r.halted = "no"
       THEN arr' = r.self /\ mem' = r.mem /\ UNCHANGED halted
       ELSE halted' = r.halted /\ UNCHANGED <<arr, mem>>
    /\ lastOp' = [op |-> name, arg |-> arg, before |-> IF "result" \in DOMAIN r THEN r.result ELSE 0]
    /\ UNCHANGED <<ht, shadow, str, main, refs>>

\* add and emplace_back (value is the element), add_defaulted() and add_zeroed()
\* (value 0), add_uninitialized() (RawElement): one element is added.
ArrayAdd(name, value) ==
    /\ Running
    /\ arr.size + 1 <= MaxArraySize
    /\ \E new_data \in Platform_allocate_memory(mem) :
          ArrayCall(name, 1, Array_add(Process(arr, mem), 1, Array_calculate_growth(arr), value, new_data))

\* add_defaulted(count), add_zeroed(count) and add_uninitialized(count).
ArrayAddCount(name, count, value) ==
    /\ Running
    /\ arr.size + count <= MaxArraySize
    /\ \E new_data \in Platform_allocate_memory(mem) :
          ArrayCall(name, count, Array_add(Process(arr, mem), count, Array_calculate_growth_for(arr, count), value, new_data))

\* set_size_defaulted and set_size_zeroed (value 0), set_size_uninitialized
\* (RawElement).
ArraySetSize(name, new_size, value) ==
    /\ Running
    /\ \E new_data \in Platform_allocate_memory(mem) :
          ArrayCall(name, new_size, Array_set_size(Process(arr, mem), new_size, value, new_data))

ArraySetSizeInternal(new_size) == Running /\ ArrayCall("set_size_internal", new_size, set_size_internal(Process(arr, mem), new_size))

ArraySetCapacity(new_capacity) ==
    /\ Running
    /\ \E new_data \in Platform_allocate_memory(mem) :
          ArrayCall("set_capacity", new_capacity, set_capacity(Process(arr, mem), new_capacity, new_data))

ArrayClear == Running /\ ArrayCall("clear", 0, Array_clear(Process(arr, mem)))

\* Array copy(arr): the run goes on with the copy, and arr is destroyed.
ArrayCopyConstruct ==
    /\ Running
    /\ \E new_data \in Platform_allocate_memory(mem) :
          LET copy == Array_copy_construct(mem, arr, new_data)
          IN ArrayCall("copy_construct", 0, [copy EXCEPT !.mem = Array_destroy(@, arr)])

\* arr = other, for a temporary other that holds src.
ArrayCopyAssign(src) ==
    /\ Running
    /\ \E other_data \in Platform_allocate_memory(mem) :
          /\ other_data = nullptr <=> Len(src) = 0
          /\ LET other == Array_holding(src, other_data)
                 built == Memory_allocate_tagged(mem, Len(src), other_data)
             IN \E new_data \in Platform_allocate_memory(built) :
                   LET assigned == Array_copy_assign(Process(arr, built), other, new_data)
                   IN ArrayCall("copy_assign", Len(src), [assigned EXCEPT !.mem = Array_destroy(@, other)])

\* arr = arr
ArrayCopyAssignSelf ==
    /\ Running
    /\ \E new_data \in Platform_allocate_memory(mem) :
          ArrayCall("copy_assign_self", 0, Array_copy_assign_self(Process(arr, mem), new_data))

\* Array moved(move(arr)): the run goes on with the new array (arr, now without a
\* block, is destroyed) or with the moved-from arr (the new array is destroyed).
ArrayMoveConstruct ==
    /\ Running
    /\ LET moved == Array_move_construct(arr)
       IN \/ ArrayCall("move_construct", 0, Process(moved[1], Array_destroy(mem, moved[2])))
          \/ ArrayCall("move_construct", 1, Process(moved[2], Array_destroy(mem, moved[1])))

\* arr = move(other), for a temporary other that holds src: the run goes on with
\* arr (other, which now has the block arr had, is destroyed) or with other.
ArrayMoveAssign(src) ==
    /\ Running
    /\ \E other_data \in Platform_allocate_memory(mem) :
          /\ other_data = nullptr <=> Len(src) = 0
          /\ LET built == Memory_allocate_tagged(mem, Len(src), other_data)
                 moved == Array_move_assign(arr, Array_holding(src, other_data))
             IN \/ ArrayCall("move_assign", 0, Process(moved[1], Array_destroy(built, moved[2])))
                \/ ArrayCall("move_assign", 1, Process(moved[2], Array_destroy(built, moved[1])))

\* With m_size above m_capacity (set_size_internal put it there), the operations
\* that move or copy the elements read past the block: the read gives whatever
\* lies there (RawElement) or, here, stops the process.
ArrayReadOutOfBounds ==
    /\ Running
    /\ arr.size > arr.capacity
    /\ ArrayCall("read", arr.size, Crash(Process(arr, mem)))

\* The public member functions of Array that change its size or capacity: the
\* calls of NextArray, next to the constructors and assignments.
Array_mutators ==
    {"add", "emplace_back", "add_defaulted", "add_zeroed", "add_uninitialized",
     "add_defaulted(count)", "add_zeroed(count)", "add_uninitialized(count)",
     "set_size_defaulted", "set_size_zeroed", "set_size_uninitialized", "set_size_internal",
     "set_capacity", "clear"}

NextArray ==
    \/ \E name \in {"add", "emplace_back"} : ArrayAdd(name, ArrayElement)
    \/ \E name \in {"add_defaulted", "add_zeroed"} : ArrayAdd(name, 0)
    \/ ArrayAdd("add_uninitialized", RawElement)
    \/ \E name \in {"add_defaulted(count)", "add_zeroed(count)"}, count \in 0 .. MaxArraySize : ArrayAddCount(name, count, 0)
    \/ \E count \in 0 .. MaxArraySize : ArrayAddCount("add_uninitialized(count)", count, RawElement)
    \/ \E name \in {"set_size_defaulted", "set_size_zeroed"}, new_size \in 0 .. MaxArraySize : ArraySetSize(name, new_size, 0)
    \/ \E new_size \in 0 .. MaxArraySize : ArraySetSize("set_size_uninitialized", new_size, RawElement)
    \/ \E new_size \in 0 .. MaxArraySize : ArraySetSizeInternal(new_size)
    \/ \E new_capacity \in 0 .. MaxArraySize : ArraySetCapacity(new_capacity)
    \/ ArrayClear
    \/ ArrayCopyConstruct
    \/ \E src \in SourceArrays : ArrayCopyAssign(src)
    \/ ArrayCopyAssignSelf
    \/ ArrayMoveConstruct
    \/ \E src \in SourceArrays : ArrayMoveAssign(src)
    \/ ArrayReadOutOfBounds

SpecArray == InitArray /\ [][NextArray]_vars

(***************************************************************************)
(* Array properties.                                                       *)
(***************************************************************************)
\* C6, as stated: after any run of public Array operations, set_size_internal
\* among them, size <= capacity.
C6_SizeWithinCapacity == arr.size <= arr.capacity

\* C6, amended: every public Array operation keeps size <= capacity, but for
\* set_size_internal(new_size) called with new_size > capacity.
C6_SizeWithinCapacityUnlessSetBeyondIt ==
    [][(arr.size <= arr.capacity /\ ~(lastOp'.op = "set_size_internal" /\ lastOp'.arg > arr.capacity))
          => arr'.size <= arr'.capacity]_vars

\* set_size_internal has just set the size of a full-grown array to its capacity.
C6_SetSizeInternalWithinCapacity ==
    /\ lastOp.op = "set_size_internal"
    /\ arr.capacity >= 2
    /\ arr.size = arr.capacity
    /\ arr.data # nullptr

\* C7: in every reachable Array state, data is null if and only if capacity is 0.
C7_DataNullIffNoCapacity == (arr.data = nullptr) <=> (arr.capacity = 0)

\* C17, as stated: moving an Array A into B, by move construction or by move
\* assignment into a B of any prior size and capacity, leaves B with A's former
\* elements in the same order, and A with size 0 and capacity 0.
C17_MovedFromHasNoCapacity ==
    [][/\ (lastOp'.op = "move_construct" /\ lastOp'.arg = 0) => (arr'.size = arr.size /\ arr'.elems = arr.elems)
       /\ (lastOp'.op = "move_assign" /\ lastOp'.arg = 0) =>
             \A src \in SourceArrays : ArrayMoveAssign(src) => (arr'.size = Len(src) /\ arr'.elems = src)
       /\ (lastOp'.op \in {"move_construct", "move_assign"} /\ lastOp'.arg = 1) => (arr'.size = 0 /\ arr'.capacity = 0)]_vars

\* C17, amended: B is left with A's former elements in the same order and A with
\* size 0; after a move construction A has capacity 0 and no block, and after a
\* move assignment A has the capacity and the block that B had before.
C17_MovedFromHasTheTargetsBlock ==
    [][/\ (lastOp'.op = "move_construct" /\ lastOp'.arg = 0) => (arr'.size = arr.size /\ arr'.elems = arr.elems)
       /\ (lastOp'.op = "move_assign" /\ lastOp'.arg = 0) =>
             \A src \in SourceArrays : ArrayMoveAssign(src) => (arr'.size = Len(src) /\ arr'.elems = src)
       /\ (lastOp'.op = "move_construct" /\ lastOp'.arg = 1) => (arr'.size = 0 /\ arr'.capacity = 0 /\ arr'.data = nullptr)
       /\ (lastOp'.op = "move_assign" /\ lastOp'.arg = 1) => (arr'.size = 0 /\ arr'.capacity = arr.capacity /\ arr'.data = arr.data)]_vars

\* C17 at work: after a move assignment into an array that had a block, the
\* moved-from array is empty and has that block.
C17_MovedFromKeepsBlock ==
    /\ lastOp.op = "move_assign"
    /\ lastOp.arg = 1
    /\ arr.size = 0
    /\ arr.capacity >= 2
    /\ arr.data # nullptr

\* C18: a single-element append (add, emplace_back, add_defaulted(),
\* add_zeroed(), add_uninitialized()) on an Array with size == capacity
\* re-allocates to exactly capacity + floor(capacity / 2) + 1, and on an Array with
\* size < capacity leaves the capacity as it is; five adds on the empty Array a
\* run starts from give size 5, with the capacities 0, 1, 2, 4, 4, 7 before and
\* after each add.
C18_AppendGrowsByHalf ==
    [][LET RECURSIVE Added(_)
           Added(n) ==
               IF n = 0 THEN Process(Array_new, Memory_untracked)
               ELSE LET q == Added(n - 1)
                    IN Array_add(q, 1, Array_calculate_growth(q.self), ArrayElement, CHOOSE a \in 1 .. 2 : q.mem.heap[a] = 0)
       IN /\ lastOp.op = "none" =>
                /\ Added(0).self = arr
                /\ Added(5).self.size = 5
                /\ [n \in 1 .. 6 |-> Added(n - 1).self.capacity] = <<0, 1, 2, 4, 4, 7>>
          /\ (lastOp'.op \in {"add", "emplace_back", "add_defaulted", "add_zeroed", "add_uninitialized"} /\ halted' = "no" /\ arr.size <= arr.capacity) =>
                /\ arr'.size = arr.size + 1
                /\ arr.size = arr.capacity => arr'.capacity = arr.capacity + (arr.capacity \div 2) + 1
                /\ arr.size < arr.capacity => arr'.capacity = arr.capacity]_vars

\* C18 at work: the third add on an empty array has just grown it from capacity
\* 2 to capacity 4.
C18_GrownOnThirdAdd ==
    /\ lastOp.op = "add"
    /\ arr.size = 3
    /\ arr.capacity = 4
    /\ arr.elems[1] = ArrayElement /\ arr.elems[2] = ArrayElement /\ arr.elems[3] = ArrayElement

\* C19: Array has the member functions pop() and pop(count), which remove
\* elements from the end, and a pop() after an add(x) brings the size back to
\* what it was before the add.
C19_AddThenPopRestoresSize ==
    [][/\ {"pop", "pop(count)"} \subseteq Array_mutators
       /\ (lastOp.op = "add" /\ lastOp'.op = "pop") => arr'.size = arr.size - 1]_vars

\* C23, as stated: clear, set_size_defaulted / zeroed / uninitialized (to any
\* size, 0 included), the add family, copy assignment and move assignment leave
\* the capacity of the array greater than or equal to what it was before the call.
C23_CapacityNeverShrinks ==
    [][(\/ lastOp'.op \in (Array_mutators \ {"set_capacity"}) \cup {"copy_assign", "copy_assign_self"}
        \/ lastOp'.op = "move_assign" /\ lastOp'.arg = 0) =>
           arr'.capacity >= arr.capacity]_vars

\* C23, amended: clear, the set_size family, the add family and copy assignment
\* leave the capacity greater than or equal to what it was; move assignment
\* gives the array the capacity of the array it is moved from, greater or smaller.
C23_CapacityShrinksOnlyByMove ==
    [][/\ lastOp'.op \in (Array_mutators \ {"set_capacity"}) \cup {"copy_assign", "copy_assign_self"} =>
             arr'.capacity >= arr.capacity
       /\ (lastOp'.op = "move_assign" /\ lastOp'.arg = 0) =>
             \A src \in SourceArrays : ArrayMoveAssign(src) => arr'.capacity = Len(src)]_vars

\* C23 at work: set_size_zeroed(0) has emptied an array and left it its block of
\* three elements.
C23_EmptiedWithCapacityKept ==
    /\ lastOp.op = "set_size_zeroed"
    /\ lastOp.arg = 0
    /\ arr.size = 0
    /\ arr.capacity = 3
    /\ arr.data # nullptr

\* C27: add_defaulted(k), add_zeroed(k) and add_uninitialized(k), when they
\* return, return the size the array had before the call, leave the size k
\* greater, leave the elements below the old size as they were, and, when the
\* old size + k is above the capacity, leave the capacity at the greater of
\* capacity + floor(capacity / 2) + 1 and old size + k.
C27_CountedAddReturnsOldSize ==
    [][(lastOp'.op \in {"add_defaulted(count)", "add_zeroed(count)", "add_uninitialized(count)"} /\ halted' = "no") =>
          LET k == lastOp'.arg
              natural == arr.capacity + (arr.capacity \div 2) + 1
          IN /\ lastOp'.before = arr.size
             /\ arr'.size = arr.size + k
             /\ \A i \in 0 .. (arr.size - 1) : ElemAt(arr', i) = ElemAt(arr, i)
             /\ arr.size + k > arr.capacity =>
                   arr'.capacity = IF natural > arr.size + k THEN natural ELSE arr.size + k]_vars

\* C27 at work: add_zeroed(2) has returned 1 on an array of one element in a block
\* of one, which now has three elements, the first as it was, in a block of three.
C27_TwoAddedBehindOne ==
    /\ lastOp = [op |-> "add_zeroed(count)", arg |-> 2, before |-> 1]
    /\ arr.size = 3
    /\ arr.capacity = 3
    /\ arr.elems = <<ArrayElement, 0, 0>>

\* C28: a copy assignment that returns leaves the array with the size and the
\* elements, in order, of the array assigned from: of the other array for
\* arr = other, and of arr itself, as it was before the call, for arr = arr.
C28_CopyAssignmentCopiesAnyArray ==
    [][/\ (lastOp'.op = "copy_assign" /\ halted' = "no") =>
             \A src \in SourceArrays :
                 Len(src) = lastOp'.arg =>
                     /\ arr'.size = Len(src)
                     /\ \A i \in 0 .. (Len(src) - 1) : ElemAt(arr', i) = src[i + 1]
       /\ (lastOp'.op = "copy_assign_self" /\ halted' = "no") =>
             /\ arr'.size = arr.size
             /\ \A i \in 0 .. (arr.size - 1) : ElemAt(arr', i) = ElemAt(arr, i)]_vars

(***************************************************************************)
(* The String state machine.  str holds two String objects, s and t; a     *)
(* constructor call destroys the object its variable held and constructs   *)
(* the new one in its place.                                               *)
(***************************************************************************)
\* The other of the two objects.
Other(x) == CHOOSE y \in StringNames : y # x

\* The character sequences the constructors and assignments are given: one of
\* each length around SSOSize, and one with a zero byte in it.
InputSpans ==
    {[i \in 1 .. n |-> 1 + (i % 2)] : n \in {0, 1, SSOSize - 1, SSOSize, SSOSize + 1}} \cup {<<1, 0, 2>>}

InitString ==
    /\ str = Strings_new
    /\ mem = Memory_untracked
    /\ ht = HashTable_new
    /\ shadow = NoShadow
    /\ arr = Array_new
    /\ lastOp = NoOp
    /\ halted = "no"
    /\ main = Main_not_entered
    /\ refs = RefPtrs_new

\* ~String() of str[x]
String_destroyed(x) == release_memory_check(Process(str[x], mem))

\* The call name on str[x] has run to r and left the two objects as strings: it
\* returned, or it stopped the process; or it registered an allocation with the
\* tracker, whose table had to rehash and got no block from the
\* UntrackedAllocator.
StringCall(name, x, before, strings, r) ==
    /\ r.mem.tracker.allocations_count <= MaxStringAllocations
    /\ \/ IF r.halted = "no"
          THEN str' = strings /\ mem' = r.mem /\ UNCHANGED halted
          ELSE halted' = r.halted /\ UNCHANGED <<str, mem>>
       \/ /\ r.mem.tracker.allocations_count > mem.tracker.allocations_count
          /\ is_over_load_factor(String_destroyed(x).mem.tracker.allocations_table)
          /\ halted' = "crash"
          /\ UNCHANGED <<str, mem>>
    /\ lastOp' = [op |-> name, arg |-> x, before |-> before]
    /\ UNCHANGED <<ht, shadow, arr, main, refs>>

\* What Platform::allocate_memory can return to a call on str[x] that is given
\* chars: it is asked, after the block of str[x] is released, only for a span
\* that does not fit the inline buffer.
String_asks_platform(x, chars) ==
    IF fits_inline(chars) THEN {nullptr} ELSE Platform_allocate_memory(String_destroyed(x).mem)

\* A constructor of str[x] that ends in construct_from_span(chars).
StringConstructCall(name, x, chars) ==
    /\ Len(chars) < MaxStringBytes
    /\ \E new_data \in String_asks_platform(x, chars) :
          LET r == construct_from_span(Process(String_unconstructed, String_destroyed(x).mem), chars, new_data)
          IN StringCall(name, x, Len(chars), [str EXCEPT ![x] = r.self], r)

\* An assignment to str[x] that ends in assign_from_span(chars).
StringAssignCall(name, x, before, chars) ==
    /\ Len(chars) < MaxStringBytes
    /\ \E new_data \in String_asks_platform(x, chars) :
          LET r == assign_from_span(Process(str[x], mem), chars, new_data)
          IN StringCall(name, x, before, [str EXCEPT ![x] = r.self], r)

\* String x;
StringConstructDefault(x) ==
    /\ Running
    /\ StringCall("construct_default", x, 0, [str EXCEPT ![x] = String_new], String_destroyed(x))

\* String x(utf8_string);
StringConstructFromCString(x, chars) == Running /\ StringConstructCall("construct_c_string", x, Span_of(Append(chars, 0)))

\* String x(utf8_span);
StringConstructFromSpan(x, chars) == Running /\ StringConstructCall("construct_span", x, chars)

\* String x(y);
StringCopyConstruct(x) == Running /\ StringConstructCall("construct_copy", x, span(str[Other(x)]))

\* String x(move(y));
StringMoveConstruct(x) ==
    /\ Running
    /\ LET moved == String_move(str[Other(x)])
       IN StringCall("construct_move", x, 0, [str EXCEPT ![x] = moved[1], ![Other(x)] = moved[2]], String_destroyed(x))

\* x = utf8_string;
StringAssignCString(x, chars) == Running /\ StringAssignCall("assign_c_string", x, Len(Span_of(Append(chars, 0))), Span_of(Append(chars, 0)))

\* x = utf8_span;
StringAssignSpan(x, chars) == Running /\ StringAssignCall("assign_span", x, Len(chars), chars)

\* x = y; the second of two such assignments in a row is "copy_assign_again".
StringCopyAssign(x) ==
    /\ Running
    /\ StringAssignCall(IF lastOp.op \in {"copy_assign", "copy_assign_again"} /\ lastOp.arg = x
                        THEN "copy_assign_again" ELSE "copy_assign",
                        x, str, span(str[Other(x)]))

\* x = x;
StringCopyAssignSelf(x) ==
    /\ Running
    /\ str[x].bytes_count < MaxStringBytes
    /\ \E new_data \in String_asks_platform(x, span(str[x])),
          aliased \in IF is_using_sso(str[x]) THEN {"intact"} ELSE {"intact", "garbage", "crash"} :
          LET r == String_copy_assign_self(Process(str[x], mem), new_data, aliased)
          IN StringCall("copy_assign_self", x, 0, [str EXCEPT ![x] = r.self], r)

\* x = move(y);
StringMoveAssign(x) ==
    /\ Running
    /\ LET moved == String_move(str[Other(x)])
       IN StringCall("move_assign", x, 0, [str EXCEPT ![x] = moved[1], ![Other(x)] = moved[2]], String_destroyed(x))

\* x = move(x): the block is released, and the string is then reset.
StringMoveAssignSelf(x) ==
    /\ Running
    /\ StringCall("move_assign_self", x, 0, [str EXCEPT ![x] = String_move(str[x])[2]], String_destroyed(x))

NextString ==
    \/ \E x \in StringNames : StringConstructDefault(x)
    \/ \E x \in StringNames, chars \in InputSpans : StringConstructFromCString(x, chars)
    \/ \E x \in StringNames, chars \in InputSpans : StringConstructFromSpan(x, chars)
    \/ \E x \in StringNames : StringCopyConstruct(x)
    \/ \E x \in StringNames : StringMoveConstruct(x)
    \/ \E x \in StringNames, chars \in InputSpans : StringAssignCString(x, chars)
    \/ \E x \in StringNames, chars \in InputSpans : StringAssignSpan(x, chars)
    \/ \E x \in StringNames : StringCopyAssign(x)
    \/ \E x \in StringNames : StringCopyAssignSelf(x)
    \/ \E x \in StringNames : StringMoveAssign(x)
    \/ \E x \in StringNames : StringMoveAssignSelf(x)

SpecString == InitString /\ [][NextString]_vars

\* The same calls after Memory::initialize with should_initialize_tracker, in a
\* build with HC_ENABLE_ASSERTS.
InitStringTracked ==
    /\ str = Strings_new
    /\ mem = Memory_new("current", TRUE, TRUE)
    /\ ht = HashTable_new
    /\ shadow = NoShadow
    /\ arr = Array_new
    /\ lastOp = NoOp
    /\ halted = "no"
    /\ main = Main_not_entered
    /\ refs = RefPtrs_new

\* With the tracker active the constructors and assignments are given a sequence
\* of SSOSize - 1 characters (the longest the inline buffer takes) or of SSOSize.
NextStringTracked ==
    LET TrackedSpans == {[i \in 1 .. n |-> 1] : n \in {SSOSize - 1, SSOSize}}
    IN
    \/ \E x \in StringNames : StringConstructDefault(x)
    \/ \E x \in StringNames, chars \in TrackedSpans : StringConstructFromCString(x, chars)
    \/ \E x \in StringNames, chars \in TrackedSpans : StringConstructFromSpan(x, chars)
    \/ \E x \in StringNames : StringCopyConstruct(x)
    \/ \E x \in StringNames : StringMoveConstruct(x)
    \/ \E x \in StringNames, chars \in TrackedSpans : StringAssignCString(x, chars)
    \/ \E x \in StringNames, chars \in TrackedSpans : StringAssignSpan(x, chars)
    \/ \E x \in StringNames : StringCopyAssign(x)
    \/ \E x \in StringNames : StringCopyAssignSelf(x)
    \/ \E x \in StringNames : StringMoveAssign(x)
    \/ \E x \in StringNames : StringMoveAssignSelf(x)

SpecStringTracked == InitStringTracked /\ [][NextStringTracked]_vars

(***************************************************************************)
(* String properties.                                                      *)
(***************************************************************************)
\* C8: every String, after any sequence of constructions, assignments and
\* moves, has bytes_count >= 1 and a zero byte at position bytes_count - 1 of
\* its buffer.
C8_NullTerminated ==
    \A x \in StringNames :
        /\ str[x].bytes_count >= 1
        /\ Len(String_bytes(str[x])) = str[x].bytes_count
        /\ String_bytes(str[x])[str[x].bytes_count] = 0

\* C8 at work: a move assignment has just taken a string on the heap, itself the
\* copy of a string (it ends in two zero bytes), and left the other string in
\* the moved-from state.
C8_CopiedAndMovedFrom ==
    /\ lastOp.op = "move_assign"
    /\ ~is_using_sso(str[lastOp.arg])
    /\ str[lastOp.arg].bytes[str[lastOp.arg].bytes_count - 1] = 0
    /\ str[Other(lastOp.arg)] = String_new

\* C9: the content of a String is in the inline buffer exactly when
\* bytes_count <= SSOSize, and otherwise in a heap block allocated with exactly
\* bytes_count bytes; a string built from SSOSize - 1 bytes of content is inline,
\* with bytes_count = SSOSize, and one built from SSOSize bytes is on the heap,
\* with bytes_count = SSOSize + 1.
C9_InlineIffWithinSSOSize ==
    /\ \A x \in StringNames :
          /\ str[x].heap_bytes = nullptr <=> str[x].bytes_count <= SSOSize
          /\ str[x].heap_bytes # nullptr => mem.heap[str[x].heap_bytes] = str[x].bytes_count
    /\ (halted = "no" /\ lastOp.op \in {"construct_c_string", "construct_span", "assign_c_string", "assign_span"}) =>
          /\ str[lastOp.arg].bytes_count = lastOp.before + 1
          /\ lastOp.before = SSOSize - 1 => str[lastOp.arg].heap_bytes = nullptr
          /\ lastOp.before = SSOSize => str[lastOp.arg].heap_bytes # nullptr

\* C9 at work: a string with SSOSize + 1 bytes on the heap next to one with
\* SSOSize bytes, which an assignment has just brought from the heap into the
\* inline buffer.
C9_AcrossTheBoundary ==
    /\ lastOp.op = "assign_span"
    /\ lastOp.before = SSOSize - 1
    /\ str[lastOp.arg].bytes_count = SSOSize
    /\ str[Other(lastOp.arg)].bytes_count = SSOSize + 1
    /\ Cardinality(mem.outstanding) = 1

\* C10: after the copy assignment S = T, S.bytes_count equals T.bytes_count and
\* the bytes of S equal the bytes of T, with T unchanged; a second S = T leaves S
\* unchanged.
C10_CopyAssignmentCopies ==
    (halted = "no" /\ lastOp.op \in {"copy_assign", "copy_assign_again"}) =>
        LET S == str[lastOp.arg]
            T == str[Other(lastOp.arg)]
        IN /\ T = lastOp.before[Other(lastOp.arg)]
           /\ S.bytes_count = T.bytes_count
           /\ span(S) = span(T)
           /\ lastOp.op = "copy_assign_again" => S = lastOp.before[lastOp.arg]

\* C11: across constructions, copies, moves, assignments over the inline/heap
\* boundary and destructions, every String with bytes_count > SSOSize owns exactly
\* one live tracked allocation (a block of bytes_count bytes on record under its
\* address) and every inline String owns none; no block is owned by two Strings,
\* none is left without an owner, and the tracker's live count is the number of
\* heap Strings, so that the copy of a heap string raises it by one and a
\* destruction lowers it by one.
C11_OneLiveAllocationPerHeapString ==
    LET table == mem.tracker.allocations_table
        HeapStrings == {x \in StringNames : str[x].bytes_count > SSOSize}
    IN /\ \A x \in HeapStrings :
             /\ str[x].heap_bytes \in mem.outstanding
             /\ find(table, str[x].heap_bytes) # EndOfTable
             /\ ValueAt(table, find(table, str[x].heap_bytes)) = str[x].bytes_count
       /\ \A x \in HeapStrings : str[Other(x)].bytes_count > SSOSize => str[Other(x)].heap_bytes # str[x].heap_bytes
       /\ mem.outstanding = {str[x].heap_bytes : x \in HeapStrings}
       /\ {KeyAt(table, index) : index \in Records(mem)} = mem.outstanding
       /\ Cardinality(Records(mem)) = Cardinality(HeapStrings)
       /\ mem.tracker.allocations_count - mem.tracker.deallocations_count = Cardinality(HeapStrings)

\* C11 at work: a heap string has just been copied into a variable that held
\* another heap string, after an earlier allocation was released: two blocks are
\* live, one for each string.
C11_HeapStringCopied ==
    /\ lastOp.op = "construct_copy"
    /\ \A x \in StringNames : str[x].bytes_count > SSOSize
    /\ mem.tracker.allocations_count - mem.tracker.deallocations_count = 2
    /\ mem.tracker.deallocations_count >= 1

(***************************************************************************)
(* guarded_main (Core/GuardedMain.cpp): the bring-up of Platform, Memory,  *)
(* Profiler and Logger, the application, and the shutdown graph.  One step *)
(* is one HC_INITIALIZE, one call through system_shutdowns, or one of the  *)
(* statements between them; while the application runs it calls            *)
(* Memory::allocate, allocate_tagged and free.  The blocks the subsystems  *)
(* and the Application object themselves occupy are not followed in        *)
(* mem.heap: an allocation of theirs either succeeds or returns nullptr.   *)
(***************************************************************************)
\* Memory::initialize with should_initialize_tracker, s_memory_data allocated:
\* Tracker::initialize sets s_tracker_data if Memory::allocate_raw gave it a
\* block (tracker_data_allocated), and Memory::initialize returns what it returns.
Memory_initialize(m, tracker_data_allocated) ==
    IF tracker_data_allocated THEN [m EXCEPT !.active = TRUE, !.tracker = MemoryTrackerData_new] ELSE m

\* A Memory::shutdown that leaves s_tracker_data as it is.
Memory_shutdown_keeps_tracker(m) == m

\* Memory::shutdown: Tracker::shutdown if Tracker::is_active().
Memory_shutdown(m) == IF m.active THEN [m EXCEPT !.active = FALSE, !.tracker = MemoryTrackerData_new] ELSE m

\* guarded_main is entered with create_application_desc_callback null, or a
\* callback that returns false, or one that returns true; in a build with or
\* without HC_ENABLE_ASSERTS.
InitMain ==
    /\ main \in {[Main_not_entered EXCEPT !.pc = "Platform", !.callback = callback] : callback \in {"null", "fails", "succeeds"}}
    /\ mem \in {Memory_new("current", asserts, FALSE) : asserts \in BOOLEAN}
    /\ ht = HashTable_new
    /\ shadow = NoShadow
    /\ arr = Array_new
    /\ str = Strings_new
    /\ lastOp = NoOp
    /\ halted = "no"
    /\ refs = RefPtrs_new

\* HC_INITIALIZE(SYSTEM_NAME, ...), the subsystem after it being next.
\* Platform::initialize returns false if std::malloc or QueryPerformanceFrequency
\* fails.  Memory::initialize constructs MemoryData in the block
\* Platform::allocate_memory returned without testing it (a null block stops the
\* process) and returns Tracker::initialize().  Profiler::initialize (spelt
\* initializer in Performance.cpp) and Logger::initialize write through the
\* result of hc_new and return true.
\* On false the shutdowns registered so far are called, last first, and
\* guarded_main returns EXIT_FAILURE: the loop is CallShutdown and Return.
HC_INITIALIZE(SYSTEM_NAME, next) ==
    /\ Running
    /\ main.pc = SYSTEM_NAME
    /\ \E result \in {"true"} \cup (IF SYSTEM_NAME \in {"Platform", "Memory"} THEN {"false"} ELSE {}) \cup (IF SYSTEM_NAME = "Platform" THEN {} ELSE {"stops"}) :
          /\ halted' = IF result = "stops" THEN "crash" ELSE halted
          /\ mem' = IF SYSTEM_NAME = "Memory" /\ result # "stops" THEN Memory_initialize(mem, result = "true") ELSE mem
          /\ main' = IF result = "true"
                      THEN [main EXCEPT !.pc = next, !.system_shutdowns = Append(@, SYSTEM_NAME), !.initialized = Append(@, SYSTEM_NAME)]
                      ELSE IF result = "false"
                      THEN [main EXCEPT !.pc = "unwind", !.i = Len(main.system_shutdowns) - 1]
                      ELSE main
    /\ UNCHANGED <<ht, shadow, arr, str, lastOp, refs>>

\* system_shutdowns[i](), in either of the two loops, and --i.
CallShutdown ==
    /\ Running
    /\ main.pc \in {"unwind", "shutdown"}
    /\ main.i >= 0
    /\ mem' = IF main.system_shutdowns[main.i + 1] = "Memory" THEN Memory_shutdown(mem) ELSE mem
    /\ main' = [main EXCEPT !.shutdowns = Append(@, main.system_shutdowns[main.i + 1]), !.i = @ - 1]
    /\ UNCHANGED <<ht, shadow, arr, str, lastOp, halted, refs>>

\* The return after a loop: EXIT_FAILURE in HC_INITIALIZE, EXIT_SUCCESS at the end.
Return ==
    /\ Running
    /\ main.pc \in {"unwind", "shutdown"}
    /\ main.i < 0
    /\ main' = [main EXCEPT !.pc = "returned", !.exit = IF main.pc = "unwind" THEN "EXIT_FAILURE" ELSE "EXIT_SUCCESS"]
    /\ UNCHANGED <<ht, shadow, mem, arr, str, lastOp, halted, refs>>

\* if (!create_application_desc_callback || !create_application_desc_callback(&application_desc))
\*     return EXIT_FAILURE;
CreateApplicationDescription ==
    /\ Running
    /\ main.pc = "description"
    /\ main' = IF main.callback = "succeeds"
                THEN [main EXCEPT !.pc = "application"]
                ELSE [main EXCEPT !.pc = "returned", !.exit = "EXIT_FAILURE"]
    /\ UNCHANGED <<ht, shadow, mem, arr, str, lastOp, halted, refs>>

\* application = hc_new Application(application_desc); if (!application) return
\* EXIT_FAILURE.  operator new returns what Memory::allocate_tagged returns: with
\* a null block the constructor writes through it (the process stops), or, the
\* call being a replaceable allocation function that is not noexcept, the test
\* sees the null pointer.
CreateApplication ==
    /\ Running
    /\ main.pc = "application"
    /\ \/ main' = [main EXCEPT !.pc = "run"] /\ UNCHANGED halted
       \/ main' = [main EXCEPT !.pc = "returned", !.exit = "EXIT_FAILURE"] /\ UNCHANGED halted
       \/ halted' = "crash" /\ UNCHANGED main
    /\ UNCHANGED <<ht, shadow, mem, arr, str, lastOp, refs>>

\* application->run() returns and hc_delete application; then the loop over the
\* shutdown graph begins.
DestroyApplication ==
    /\ Running
    /\ main.pc = "run"
    /\ main' = [main EXCEPT !.pc = "shutdown", !.i = Len(main.system_shutdowns) - 1]
    /\ UNCHANGED <<ht, shadow, mem, arr, str, lastOp, halted, refs>>

NextMain ==
    \/ HC_INITIALIZE("Platform", "Memory")
    \/ HC_INITIALIZE("Memory", "Profiler")
    \/ HC_INITIALIZE("Profiler", "Logger")
    \/ HC_INITIALIZE("Logger", "description")
    \/ CreateApplicationDescription
    \/ CreateApplication
    \/ main.pc = "run" /\ mem.tracker.allocations_count < MaxRunAllocations /\ \E bytes_count \in 0 .. MaxBytes : Allocate(bytes_count)
    \/ main.pc = "run" /\ mem.tracker.allocations_count < MaxRunAllocations /\ \E bytes_count \in 0 .. MaxBytes : AllocateTagged(bytes_count)
    \/ main.pc = "run" /\ \E memory_block \in Addresses : Free(memory_block)
    \/ DestroyApplication
    \/ CallShutdown
    \/ Return

SpecMain == InitMain /\ [][NextMain]_vars

(***************************************************************************)
(* guarded_main properties.                                                *)
(***************************************************************************)
\* C24, as stated: the tracker is initialised at most once, and only during
\* Memory::initialize with should_initialize_tracker set; Tracker::is_active() is
\* false before that, and once the initialisation has succeeded it is true in
\* every later state of the process.
C24_TrackerActiveForLife ==
    [][/\ main.pc \in {"Platform", "Memory"} => ~mem.active
       /\ (~mem.active /\ mem'.active) => (main.pc = "Memory" /\ main.initialized = <<"Platform">> /\ main'.initialized = <<"Platform", "Memory">>)
       /\ mem.active => mem'.active]_vars

\* C24, amended: the same, but that is_active() stays true only until
\* Memory::shutdown is called through the shutdown graph; that call shuts the
\* tracker down, and is_active() is false in every state after it.
C24_TrackerActiveUntilShutdown ==
    [][LET shuts_memory_down == main.pc \in {"unwind", "shutdown"} /\ main.i >= 0 /\ main.system_shutdowns[main.i + 1] = "Memory"
       IN /\ main.pc \in {"Platform", "Memory"} => ~mem.active
          /\ (~mem.active /\ mem'.active) => (main.pc = "Memory" /\ main.initialized = <<"Platform">> /\ main'.initialized = <<"Platform", "Memory">>)
          /\ (mem.active /\ ~shuts_memory_down) => mem'.active
          /\ shuts_memory_down => ~mem'.active
          /\ "Memory" \in {main.shutdowns[n] : n \in 1 .. Len(main.shutdowns)} => ~mem'.active]_vars

\* C24 at work: the application has run with the tracker active (an allocation
\* is registered), and guarded_main has returned after Memory::shutdown.
C24_TrackerShutDownAfterRun ==
    /\ main.pc = "returned"
    /\ main.exit = "EXIT_SUCCESS"
    /\ "Memory" \in {main.shutdowns[n] : n \in 1 .. Len(main.shutdowns)}
    /\ lastOp.op \in {"allocate", "allocate_tagged", "free"}
    /\ ~mem.active

\* C30: when guarded_main has returned, the subsystems whose initialize
\* returned true have each been shut down once, in the reverse of the order of
\* their initialisation: on the success path, after a subsystem that failed to
\* initialise, after a missing or failing description callback and after a
\* failed creation of the application.
C30_ShutDownInReverseBeforeReturn ==
    main.pc = "returned" =>
        main.shutdowns = [i \in 1 .. Len(main.initialized) |-> main.initialized[Len(main.initialized) - i + 1]]

(***************************************************************************)
(* RefPtr (Containers/RefPtr.h).  refs holds three RefPtr variables, a, b  *)
(* and c, and the objects of a type with HC_REFERENCED_COUNTED_OBJECT.  A  *)
(* constructor call builds the new handle in a variable whose handle holds *)
(* nothing; the destructor leaves such a variable behind.                  *)
(***************************************************************************)
\* RefPtr::release
RefPtr_release(r, x) ==
    LET instance == r.instance[x]
    IN IF instance = nullptr THEN r
       ELSE [instance |-> [r.instance EXCEPT ![x] = nullptr],
             count |-> [r.count EXCEPT ![instance] = @ - 1],
             alive |-> IF r.count[instance] - 1 = 0 THEN r.alive \ {instance} ELSE r.alive]

InitRefPtr ==
    /\ refs = RefPtrs_new
    /\ ht = HashTable_new
    /\ shadow = NoShadow
    /\ mem = Memory_untracked
    /\ arr = Array_new
    /\ str = Strings_new
    /\ lastOp = NoOp
    /\ halted = "no"
    /\ main = Main_not_entered

\* The call name on the handle x has returned and left r.
RefPtrCall(name, x, r) ==
    /\ refs' = r
    /\ lastOp' = [op |-> name, arg |-> 0, before |-> 0]
    /\ UNCHANGED <<ht, shadow, mem, arr, str, halted, main>>

\* x = RefPtr<T>::create(): hc_new T, whose m_reference_count_internal starts at
\* 0, and the constructor from the raw pointer.  With no memory the constructor
\* of T writes through a null pointer.
RefPtrCreate(x) ==
    /\ Running
    /\ refs.instance[x] = nullptr
    /\ \/ \E pointer \in (1 .. MaxObjects) \ refs.alive :
             RefPtrCall("create", x, [instance |-> [refs.instance EXCEPT ![x] = pointer],
                                      count |-> [refs.count EXCEPT ![pointer] = 1],
                                      alive |-> refs.alive \cup {pointer}])
       \/ /\ halted' = "crash"
          /\ UNCHANGED <<ht, shadow, mem, arr, str, lastOp, main, refs>>

\* RefPtr x(pointer), with the pointer a handle y gives out (y.get(), or the
\* m_instance that as() passes on, which may be null).
RefPtrConstruct(x, y) ==
    /\ Running
    /\ refs.instance[x] = nullptr
    /\ LET pointer == refs.instance[y]
       IN IF pointer = nullptr
          THEN RefPtrCall("construct", x, refs)
          ELSE /\ refs.count[pointer] < MaxReferenceCount
               /\ RefPtrCall("construct", x, [refs EXCEPT !.instance[x] = pointer, !.count[pointer] = @ + 1])

\* RefPtr x(y)
RefPtrCopyConstruct(x, y) ==
    /\ Running
    /\ refs.instance[x] = nullptr
    /\ LET instance == refs.instance[y]
       IN IF instance = nullptr
          THEN RefPtrCall("copy_construct", x, refs)
          ELSE /\ refs.count[instance] < MaxReferenceCount
               /\ RefPtrCall("copy_construct", x, [refs EXCEPT !.instance[x] = instance, !.count[instance] = @ + 1])

\* RefPtr x(move(y))
RefPtrMoveConstruct(x, y) ==
    /\ Running
    /\ refs.instance[x] = nullptr
    /\ RefPtrCall("move_construct", x, [refs EXCEPT !.instance[x] = refs.instance[y], !.instance[y] = nullptr])

\* x = y (y may be x): the count of what y holds goes up first, then release(),
\* then m_instance = other.m_instance.
RefPtrCopyAssign(x, y) ==
    /\ Running
    /\ LET instance == refs.instance[y]
           counted == IF instance = nullptr THEN refs ELSE [refs EXCEPT !.count[instance] = @ + 1]
           released == RefPtr_release(counted, x)
       IN /\ IF instance = nullptr THEN TRUE ELSE refs.count[instance] < MaxReferenceCount
          /\ RefPtrCall("copy_assign", x, [released EXCEPT !.instance[x] = released.instance[y]])

\* x = move(y) (y may be x): m_instance = other.m_instance; other.m_instance =
\* nullptr.
RefPtrMoveAssign(x, y) ==
    /\ Running
    /\ LET taken == [refs EXCEPT !.instance[x] = refs.instance[y]]
       IN RefPtrCall("move_assign", x, [taken EXCEPT !.instance[y] = nullptr])

\* x = nullptr, x.release() and ~RefPtr() of x: each is release().
RefPtrRelease(name, x) ==
    /\ Running
    /\ RefPtrCall(name, x, RefPtr_release(refs, x))

NextRefPtr ==
    \/ \E x \in RefPtrNames : RefPtrCreate(x)
    \/ \E x \in RefPtrNames : \E y \in RefPtrNames \ {x} : RefPtrConstruct(x, y)
    \/ \E x \in RefPtrNames : \E y \in RefPtrNames \ {x} : RefPtrCopyConstruct(x, y)
    \/ \E x \in RefPtrNames : \E y \in RefPtrNames \ {x} : RefPtrMoveConstruct(x, y)
    \/ \E x \in RefPtrNames, y \in RefPtrNames : RefPtrCopyAssign(x, y)
    \/ \E x \in RefPtrNames, y \in RefPtrNames : RefPtrMoveAssign(x, y)
    \/ \E name \in {"assign_nullptr", "release", "destroy"}, x \in RefPtrNames : RefPtrRelease(name, x)

SpecRefPtr == InitRefPtr /\ [][NextRefPtr]_vars

(***************************************************************************)
(* RefPtr properties.                                                      *)
(***************************************************************************)
\* C29: in every state reached by RefPtr operations, each object that is alive
\* has a reference count equal to the number of handles that point at it, no
\* handle points at a deleted object, and no object is alive without a handle
\* pointing at it.
C29_CountIsNumberOfHandles ==
    LET handles(o) == {x \in RefPtrNames : refs.instance[x] = o}
    IN /\ \A x \in RefPtrNames : refs.instance[x] # nullptr => refs.instance[x] \in refs.alive
       /\ \A o \in refs.alive :
             /\ refs.count[o] = Cardinality(handles(o))
             /\ handles(o) # {}

====
